---- MODULE Spec2Model ----
(***************************************************************************)
(* Model of the multi-process mesh supervisor: the blocklist               *)
(* (MeshBlocklist), the process manager (ProcessManager) and the worker    *)
(* processes it forks (mesh-worker / MeshWorker).                          *)
(*                                                                         *)
(* Every action is one run of the event loop: a callback or the            *)
(* continuation of an await, from the point where it resumes to the next   *)
(* point where it suspends on a timer, on I/O or on the network.           *)
(*                                                                         *)
(* Time is counted in hours: Date.now() is the variable now, and the       *)
(* default blocklistDuration of 3600000 ms is 1.                           *)
(***************************************************************************)
EXTENDS Integers, Sequences, FiniteSets, TLC

\* ------------------------------------------------------------------ bounds
NumMeshes == 2          \* mesh ids known to the directory
NumApiMeshes == 1       \* mesh ids the blocklist is called with directly
MaxTime == 2            \* the clock stops advancing here
MaxSaves == 2           \* save() calls in flight at once
MaxDuration == 2        \* largest explicit duration passed to block()

Meshes == 1..NumMeshes
ApiMeshes == 1..NumApiMeshes

\* ------------------------------------------------------------ blocklist data
Null == -1              \* blockedUntil: null (permanent)
NoDuration == -2        \* block() called without a duration (undefined)
blocklistDuration == 1  \* config.blocklistDuration || 3600000

Reasons == {"connection_failures", "kicked"}
Durations == {NoDuration} \cup (0..MaxDuration)

VARIABLES
    now,            \* Date.now()
    blockedMeshes,  \* MeshBlocklist.blockedMeshes: Map meshId -> BlockedMesh
    file,           \* the persisted blocklist file
    savePending,    \* save() calls awaiting fs.mkdir
    saveWriting,    \* save() calls inside fs.writeFile, each with its snapshot
    did,            \* the isBlocked calls made in the last step, with what they returned
    everKicked,     \* history: meshes given a kicked entry and not unblocked since
    ttl,            \* history: blockedUntil of the connection_failures block in force
    expiredSeen,    \* history: meshes whose block in force was seen expired by isBlocked
    ioFailed,       \* history: some mkdir or writeFile has failed
    dirWritable,    \* the directory of the blocklist file can be created and written
    maxConnectionAttempts,  \* config.maxConnectionAttempts
    directory,      \* the mesh ids the directory API can list
    processes,      \* ProcessManager.processes: Map meshId -> ProcessInfo, in insertion order
    workers,        \* the forked child processes, by pid
    isRunning,      \* ProcessManager.isRunning
    shutdownRequested,  \* ProcessManager.shutdownRequested
    discoveryInterval,  \* ProcessManager.discoveryInterval is set
    timers,         \* discovery intervals created and not cleared
    monitoring,     \* ProcessMonitor.monitoring
    runners,        \* the start() calls and discovery ticks in flight
    stopWaits,      \* stopProcess calls made by stop(), waiting out the grace period
    exitDelay,      \* handleProcessExit calls waiting out the restart delay, per mesh
    spawnLookup,    \* their spawnProcess calls awaiting getMeshInfo, per mesh
    respawns,       \* history: forks made by handleProcessExit, per mesh
    excused,        \* history: the meshes kicked, blocked, stopped, disconnected
                    \* by the server or shut down at some time
    streak,         \* history: consecutive failed connection attempts, per mesh
    kickedEmitted,  \* history: meshes whose worker has emitted kicked
    synced,         \* history: the list of the last syncMeshes run to end, while
                    \* no worker has acted, no handler has run and no time has
                    \* passed since
    isConnected,    \* RaveWebSocketClient.isConnected
    isTerminated,   \* RaveWebSocketClient.isTerminated
    websocket,      \* RaveWebSocketClient.websocket: "null", or the state of the socket
    pingDelays,     \* startPingLoop timeouts that have not fired yet
    intervals,      \* ping intervals created and not cleared
    pingTimer,      \* RaveWebSocketClient.pingTimer is set
    responseChannels,   \* RaveWebSocketClient.responseChannels: request id -> the
                    \* sendRequest call whose channel is stored, 0 for none
    calls,          \* the sendRequest calls made, in order: request id, how the
                    \* promise stands, whether its 8 s timeout is armed, and
                    \* (history) whether disconnect() had run when it was made
    inflight,       \* requests written to the socket and not answered yet, per id
    wrote,          \* what the last step wrote to the socket
    dropped,        \* the socket closed and dropped by disconnect(): "none", "closing"
                    \* (events to come), "closed"
    connectionStartTime,    \* RaveWebSocketClient.connectionStartTime, 0 before an open
    lastCloseCode,  \* RaveWebSocketClient.lastCloseCode
    closedAt,       \* history: Date.now() at the close recorded since the last open
    ticksAhead      \* the ticks the ping intervals make before the oldest pending
                    \* startPingLoop timeout fires (both last pingInterval, and
                    \* Node.js runs timers of one duration in the order they were armed)

\* the variables of the websocket client
sessionVars == <<dropped, connectionStartTime, lastCloseCode, closedAt, ticksAhead>>
otherVars == <<isConnected, isTerminated, websocket, pingDelays, intervals, pingTimer,
               responseChannels, calls, inflight, wrote, sessionVars>>
blVars == <<blockedMeshes, file, savePending, saveWriting>>
blHist == <<everKicked, ttl, expiredSeen>>
mgrVars == <<dirWritable, otherVars, maxConnectionAttempts, directory, processes, workers, isRunning,
             shutdownRequested, discoveryInterval, timers, monitoring, runners,
             stopWaits, exitDelay, spawnLookup>>
mgrHist == <<respawns, excused, streak, kickedEmitted, synced>>
vars == <<now, blockedMeshes, file, savePending, saveWriting, did,
          everKicked, ttl, expiredSeen, ioFailed, dirWritable, otherVars, maxConnectionAttempts,
          directory, processes, workers, isRunning, shutdownRequested,
          discoveryInterval, timers, monitoring, runners, stopWaits, exitDelay,
          spawnLookup, respawns, excused, streak, kickedEmitted, synced>>

Did(op, m, r, n) == [op |-> op, mesh |-> m, result |-> r, arg |-> n]

\* no syncMeshes run has ended, or something has happened since
NoSync == [list |-> {}, exact |-> FALSE, again |-> 0, valid |-> FALSE]

\* Map.set / Map.delete on a function whose DOMAIN is the key set
MapSet(f, k, v) == [x \in (DOMAIN f) \cup {k} |-> IF x = k THEN v ELSE f[x]]
MapDelete(f, k) == [x \in (DOMAIN f) \ {k} |-> f[x]]
EmptyMap == [x \in {} |-> 0]

\* JSON.stringify({blockedMeshes: Object.fromEntries(map)}): the entry objects
ToJSON(map) == {map[m] : m \in DOMAIN map}
\* Object.entries(data.blockedMeshes) set back into a Map
FromJSON(data) ==
    [m \in {e.meshId : e \in data} |-> CHOOSE e \in data : e.meshId = m]

NoFile == [status |-> "missing", data |-> {}]
TornFile == [status |-> "torn", data |-> {}]
FileOf(data) == [status |-> "ok", data |-> data]

SavesInFlight == savePending + Cardinality(saveWriting)

\* a block() that takes the duration it is passed for a kicked mesh too
NewBlockedMeshTimed(meshId, reason, duration, t) ==
    [meshId |-> meshId,
     reason |-> reason,
     blockedAt |-> t,
     blockedUntil |-> t + (IF duration \in {NoDuration, 0} THEN blocklistDuration
                           ELSE duration)]
\* the BlockedMesh object block() builds
NewBlockedMesh(meshId, reason, duration, t) ==
    [meshId |-> meshId,
     reason |-> reason,
     blockedAt |-> t,
     blockedUntil |-> IF reason = "kicked" THEN Null
                      ELSE t + (IF duration \in {NoDuration, 0} THEN blocklistDuration
                                ELSE duration)]

\* block(meshId, reason, duration): the map after blockedMeshes.set
block(map, meshId, reason, duration, t) ==
    MapSet(map, meshId, NewBlockedMesh(meshId, reason, duration, t))

\* the entry isBlocked finds expired: present, temporary, and now > blockedUntil
Expired(map, meshId, t) ==
    /\ meshId \in DOMAIN map
    /\ map[meshId].blockedUntil # Null
    /\ t > map[meshId].blockedUntil

\* isBlocked(meshId): the value returned
isBlocked(map, meshId, t) ==
    /\ meshId \in DOMAIN map
    /\ \/ map[meshId].blockedUntil = Null
       \/ ~(t > map[meshId].blockedUntil)

\* isBlocked(meshId): the map it leaves, an expired entry deleted (and saved)
isBlockedMap(map, meshId, t) ==
    IF Expired(map, meshId, t) THEN MapDelete(map, meshId) ELSE map

\* unblock(meshId): the map it leaves
unblock(map, meshId) == MapDelete(map, meshId)

\* cleanupExpiredBlocks(): the map without its expired temporary entries
cleanupExpiredBlocks(map, t) ==
    [m \in {k \in DOMAIN map : ~Expired(map, k, t)} |-> map[m]]

\* save() is called by a blocklist operation exactly when it changed the map
\* (block and clearAll call it always)
Saves(before, after) == IF before = after THEN 0 ELSE 1

\* ---- history kept beside the blocklist calls, from the calls of the step
Forgotten(ev) ==
    IF \E e \in ev : e.op = "clearAll" THEN Meshes
    ELSE {e.mesh : e \in {x \in ev : x.op = "unblock"}}

Entered(ev) == {e \in ev : e.op \in {"block", "loaded"}}

EnteredUntil(e) ==
    IF e.op = "loaded" THEN e.arg
    ELSE NewBlockedMesh(e.mesh, IF e.result THEN "kicked" ELSE "connection_failures",
                        e.arg, now).blockedUntil

Hist(ev) ==
    /\ everKicked' = (everKicked \ Forgotten(ev))
                        \cup {e.mesh : e \in {x \in Entered(ev) : x.result}}
    /\ ttl' = [m \in Meshes |->
                IF \E e \in Entered(ev) : e.mesh = m
                THEN EnteredUntil(CHOOSE e \in Entered(ev) : e.mesh = m)
                ELSE IF m \in Forgotten(ev) THEN Null ELSE ttl[m]]
    /\ expiredSeen' = (expiredSeen \ (Forgotten(ev) \cup {e.mesh : e \in Entered(ev)}))
                        \cup {e.mesh : e \in {x \in ev : x.op = "isBlocked" /\ x.arg = 1}}

\* of the calls of a step, those kept in did
Returned(ev) == {e \in ev : e.op = "isBlocked"}

\* the calls a blocklist operation is recorded as
DidBlock(m, reason, duration) == Did("block", m, reason = "kicked", duration)
DidIsBlocked(map, m, t) ==
    Did("isBlocked", m, isBlocked(map, m, t), IF Expired(map, m, t) THEN 1 ELSE 0)

\* ------------------------------------------------------- save() continuations
\* fs.mkdir resolved: the snapshot of the map is taken and fs.writeFile starts
SaveMkdirDone ==
    /\ savePending > 0
    /\ savePending' = savePending - 1
    /\ saveWriting' = saveWriting \cup {[data |-> ToJSON(blockedMeshes), opened |-> FALSE]}
    /\ did' = {}
    /\ UNCHANGED <<now, blockedMeshes, file, ioFailed>>
    /\ UNCHANGED <<blHist, mgrVars, mgrHist>>

\* fs.mkdir rejected: save() logs and returns
SaveMkdirFail ==
    /\ savePending > 0
    /\ savePending' = savePending - 1
    /\ ioFailed' = TRUE
    /\ did' = {}
    /\ UNCHANGED <<now, blockedMeshes, file, saveWriting>>
    /\ UNCHANGED <<blHist, mgrVars, mgrHist>>

\* fs.writeFile opened the file for writing: it is truncated
SaveOpen(w) ==
    /\ w \in saveWriting
    /\ ~w.opened
    /\ saveWriting' = (saveWriting \ {w}) \cup {[w EXCEPT !.opened = TRUE]}
    /\ file' = TornFile
    /\ did' = {}
    /\ UNCHANGED <<now, blockedMeshes, savePending, ioFailed>>
    /\ UNCHANGED <<blHist, mgrVars, mgrHist>>

\* fs.writeFile wrote its data and resolved
SaveFinish(w) ==
    /\ w \in saveWriting
    /\ w.opened
    /\ saveWriting' = saveWriting \ {w}
    /\ file' = FileOf(w.data)
    /\ did' = {}
    /\ UNCHANGED <<now, blockedMeshes, savePending, ioFailed>>
    /\ UNCHANGED <<blHist, mgrVars, mgrHist>>

\* fs.writeFile rejected: save() logs and returns, the file stays as it is
SaveFail(w) ==
    /\ w \in saveWriting
    /\ saveWriting' = saveWriting \ {w}
    /\ ioFailed' = TRUE
    /\ did' = {}
    /\ UNCHANGED <<now, blockedMeshes, file, savePending>>
    /\ UNCHANGED <<blHist, mgrVars, mgrHist>>

SaveStep ==
    \/ SaveMkdirDone
    \/ SaveMkdirFail
    \/ \E w \in saveWriting : SaveOpen(w)
    \/ \E w \in saveWriting : SaveFinish(w)
    \/ \E w \in saveWriting : SaveFail(w)

\* the clock advances
Tick ==
    /\ now < MaxTime
    /\ now' = now + 1
    /\ did' = {}
    /\ synced' = NoSync
    /\ runners' = [s \in DOMAIN runners |-> [runners[s] EXCEPT !.again = 0]]
    /\ UNCHANGED <<blVars, ioFailed, blHist, respawns, excused, streak, kickedEmitted>>
    /\ UNCHANGED <<dirWritable, otherVars, maxConnectionAttempts, directory, processes, workers,
                   isRunning, shutdownRequested, discoveryInterval, timers,
                   monitoring, stopWaits, exitDelay, spawnLookup>>

\* n calls of save(), each up to its await fs.mkdir; where the directory cannot
\* be created mkdir rejects and the call only logs, which is done at once
SaveCalls(n) ==
    /\ dirWritable => SavesInFlight + n <= MaxSaves
    /\ savePending' = IF dirWritable THEN savePending + n ELSE savePending
    /\ ioFailed' = (ioFailed \/ (~dirWritable /\ n > 0))
    /\ UNCHANGED <<file, saveWriting>>

\* a blocklist whose failed save undoes the change it was to persist
BlocklistRollsBack(map2, n) ==
    /\ blockedMeshes' = IF ~dirWritable /\ n > 0 THEN blockedMeshes ELSE map2
    /\ SaveCalls(n)
\* the blocklist map changes to map2, with n calls of save()
BlocklistBecomes(map2, n) ==
    /\ blockedMeshes' = map2
    /\ SaveCalls(n)

\* ------------------------------------------ the blocklist called directly
ApiBlock(m, reason, duration) ==
    /\ BlocklistBecomes(block(blockedMeshes, m, reason, duration, now), 1)
    /\ did' = Returned({DidBlock(m, reason, duration)})
    /\ Hist({DidBlock(m, reason, duration)})
    /\ UNCHANGED <<now, mgrVars, mgrHist>>

ApiIsBlocked(m) ==
    /\ BlocklistBecomes(isBlockedMap(blockedMeshes, m, now),
                        Saves(blockedMeshes, isBlockedMap(blockedMeshes, m, now)))
    /\ did' = Returned({DidIsBlocked(blockedMeshes, m, now)})
    /\ Hist({DidIsBlocked(blockedMeshes, m, now)})
    /\ UNCHANGED <<now, mgrVars, mgrHist>>

ApiUnblock(m) ==
    /\ BlocklistBecomes(unblock(blockedMeshes, m),
                        Saves(blockedMeshes, unblock(blockedMeshes, m)))
    /\ did' = Returned({Did("unblock", m, m \in DOMAIN blockedMeshes, 0)})
    /\ Hist({Did("unblock", m, m \in DOMAIN blockedMeshes, 0)})
    /\ UNCHANGED <<now, mgrVars, mgrHist>>

ApiClearAll ==
    /\ BlocklistBecomes(EmptyMap, 1)
    /\ did' = Returned({Did("clearAll", 0, TRUE, 0)})
    /\ Hist({Did("clearAll", 0, TRUE, 0)})
    /\ UNCHANGED <<now, mgrVars, mgrHist>>

ApiCleanup ==
    /\ BlocklistBecomes(cleanupExpiredBlocks(blockedMeshes, now),
                        Saves(blockedMeshes, cleanupExpiredBlocks(blockedMeshes, now)))
    /\ did' = Returned({Did("cleanupExpiredBlocks", 0, TRUE, 0)})
    /\ Hist({Did("cleanupExpiredBlocks", 0, TRUE, 0)})
    /\ UNCHANGED <<now, mgrVars, mgrHist>>

NextBlocklist ==
    \/ \E m \in ApiMeshes, r \in Reasons, d \in Durations : ApiBlock(m, r, d)
    \/ \E m \in ApiMeshes : ApiIsBlocked(m)
    \/ \E m \in ApiMeshes : ApiUnblock(m)
    \/ ApiClearAll
    \/ ApiCleanup
    \/ SaveStep
    \/ Tick

\* ------------------------------------------------------ supervisor: bounds
NumPids == 2            \* child processes not yet reaped at once
MaxOutbox == 2          \* IPC messages of one worker not yet handled
MaxRunners == 1         \* start() calls and discovery ticks in flight at once
MaxListLen == 2         \* length of the list a directory fetch returns
MaxExitWaits == 1       \* handleProcessExit calls in flight per mesh and await
MaxTimers == 1          \* discovery intervals alive at once
MaxStreak == 3          \* the failure streak is counted up to here

Pids == 1..NumPids
Slots == 1..MaxRunners

\* ------------------------------------------------------ supervisor: config
configMaxProcesses == 1         \* config.maxProcesses as passed to the constructor
configMaxProcessRestarts == 1   \* config.maxProcessRestarts as passed to the constructor
ConfigMaxConnectionAttempts == {1, 3}   \* config.maxConnectionAttempts (3: the default)

Max(a, b) == IF a >= b THEN a ELSE b
Min(a, b) == IF a <= b THEN a ELSE b

\* Math.max(config.maxProcessRestarts || 5, 3)
maxProcessRestarts ==
    Max(IF configMaxProcessRestarts = 0 THEN 5 ELSE configMaxProcessRestarts, 3)

\* config.maxProcesses || Infinity: stored, and read nowhere
maxProcesses == configMaxProcesses

\* MeshWorker.maxConnectionAttempts
workerMaxConnectionAttempts == 3

\* ---------------------------------------------------- registry (a JS Map)
Has(procs, m) == \E i \in DOMAIN procs : procs[i].meshId = m
IndexOf(procs, m) == CHOOSE i \in DOMAIN procs : procs[i].meshId = m
Get(procs, m) == procs[IndexOf(procs, m)]
Put(procs, info) ==
    IF Has(procs, info.meshId)
    THEN [procs EXCEPT ![IndexOf(procs, info.meshId)] = info]
    ELSE Append(procs, info)
IsNot(m, r) == r.meshId # m
Delete(procs, m) == SelectSeq(procs, LAMBDA r : IsNot(m, r))
Keys(procs) == [i \in DOMAIN procs |-> procs[i].meshId]
Range(seq) == {seq[i] : i \in DOMAIN seq}

\* the ProcessInfo spawnProcess builds (process: the child, by pid)
NewProcessInfo(meshId, pid) ==
    [meshId |-> meshId,
     process |-> pid,
     state |-> "spawning",
     connectionAttempts |-> 0,
     retryCount |-> 0,
     kicked |-> FALSE,
     serverDisconnected |-> FALSE,
     lastHeartbeat |-> now]

\* ---------------------------------------------------------- child processes
NewWorker(m) ==
    [mesh |-> m,
     phase |-> "init",          \* init, ready (connecting), connected, left, dead
     connectionAttempts |-> 0,  \* MeshWorker.connectionAttempts
     outbox |-> <<>>,           \* messages sent, 'message' not yet emitted in the parent
     alive |-> TRUE,
     exitPending |-> FALSE,     \* exited, 'exit' not yet emitted in the parent
     killed |-> FALSE,          \* ChildProcess.killed
     shutdown |-> FALSE,        \* a shutdown command is in its inbox
     asked |-> FALSE,           \* a status_request is in its inbox
     overdue |-> FALSE,         \* history: a health check found its record's
                                \* heartbeat older than the threshold
     readyHandled |-> FALSE,    \* history: the parent has handled its ready event
     leaveHandled |-> FALSE,    \* history: ... and its intentional_leave event
     closeHandled |-> FALSE]    \* history: ... and, on a record, its disconnected
                                \* event with a server-initiated reason

Dead(w) ==
    [w EXCEPT !.alive = FALSE, !.exitPending = TRUE, !.phase = "dead",
              !.connectionAttempts = 0, !.shutdown = FALSE, !.asked = FALSE]

HasFreePid(wk) == \E p \in Pids : p \notin DOMAIN wk
FreePid(wk) ==
    CHOOSE p \in Pids : p \notin DOMAIN wk /\ \A q \in Pids : q < p => q \in DOMAIN wk

\* ChildProcess.killed (a reaped child was never killed by the parent)
Killed(wk, p) == p \in DOMAIN wk /\ wk[p].killed

\* child.send(shutdown): reaches a live child; on a closed channel nothing arrives
SendShutdown(wk, p) ==
    IF p \in DOMAIN wk /\ wk[p].alive THEN [wk EXCEPT ![p].shutdown = TRUE] ELSE wk

\* child.kill('SIGTERM'): the worker installs no handler and dies; on a child
\* that has exited kill() returns false and killed stays false
Kill(wk, p) ==
    IF p \in DOMAIN wk /\ wk[p].alive
    THEN [wk EXCEPT ![p] = [Dead(@) EXCEPT !.killed = TRUE]]
    ELSE wk

\* a child is forgotten once it is dead, its exit and messages were handled,
\* and neither the registry nor a stopProcess call holds it
Reapable(w) == ~w.alive /\ ~w.exitPending /\ w.outbox = <<>>
Reap(wk, refs) ==
    [p \in {q \in DOMAIN wk : ~Reapable(wk[q]) \/ q \in refs} |-> wk[p]]

\* ------------------------------------------------ IPC events (ChildEvent)
Ev(type, attempt, reason) == [type |-> type, attempt |-> attempt, reason |-> reason]
EvReady == Ev("ready", 0, "")
EvConnected == Ev("connected", 0, "")
EvKicked == Ev("kicked", 0, "")
EvLeave == Ev("intentional_leave", 0, "")
EvConnectionFailed(attempt) == Ev("connection_failed", attempt, "")
EvDisconnected(reason) == Ev("disconnected", 0, reason)

\* the values a 'message' event may carry besides the messages the worker
\* builds: a string, null, and objects with type and timestamp absent
\* ("undefined", Null), present and falsy ("", 0), or present and truthy
RawMessages ==
    {[js |-> "string"], [js |-> "null"]} \cup
    {[js |-> "object", type |-> t, timestamp |-> ts, payload |-> [type |-> "error"]] :
        t \in {"undefined", "", "event"}, ts \in {Null, 0, 1}}

parseTypeOnly(data) ==
    IF data.js = "object" /\ data.type \notin {"undefined", ""} THEN data ELSE [js |-> "null"]
\* parseIPCMessage: typeof data === 'object' && data.type && data.timestamp;
\* reading data.type of null throws, and the catch returns null
parseIPCMessage(data) ==
    IF data.js = "null" THEN [js |-> "null"]
    ELSE IF /\ data.js = "object"
            /\ data.type \notin {"undefined", ""}
            /\ data.timestamp \notin {Null, 0}
    THEN data
    ELSE [js |-> "null"]

\* a handler that takes no reason for a server-initiated close
NeverServerDisconnected(reason) == FALSE
\* event.reason.includes('Server disconnected')
IncludesServerDisconnected(reason) == reason = "Server disconnected"

\* a handleStatusResponse that takes the reported connected flag as the state
handleStatusResponseFlag(info, status) ==
    [info EXCEPT !.lastHeartbeat = now,
                 !.state = IF status.connected THEN "connected" ELSE "disconnected",
                 !.retryCount = status.retryCount,
                 !.connectionAttempts = status.connectionAttempts]
\* ProcessMonitor.handleStatusResponse on the record it found: the heartbeat,
\* the state reconciled with the connected flag, the worker's counters
handleStatusResponse(info, status) ==
    [info EXCEPT !.lastHeartbeat = now,
                 !.state = IF status.connected THEN "connected"
                           ELSE IF @ = "connected" THEN "disconnected" ELSE @,
                 !.retryCount = status.retryCount,
                 !.connectionAttempts = status.connectionAttempts]

\* the 'message' handler's switch: the ProcessInfo after the event
OnEvent(info, event) ==
    CASE event.type = "ready" -> [info EXCEPT !.state = "ready"]
      [] event.type = "connected" ->
            [info EXCEPT !.state = "connected", !.connectionAttempts = 0]
      [] event.type = "disconnected" ->
            IF IncludesServerDisconnected(event.reason)
            THEN [info EXCEPT !.serverDisconnected = TRUE, !.state = "stopped"]
            ELSE [info EXCEPT !.state = "disconnected"]
      [] event.type = "kicked" -> [info EXCEPT !.kicked = TRUE, !.state = "stopped"]
      [] event.type = "connection_failed" ->
            [info EXCEPT !.connectionAttempts = event.attempt,
                         !.state = IF event.attempt >= maxConnectionAttempts
                                   THEN "blocked" ELSE @]
      [] event.type = "intentional_leave" -> [info EXCEPT !.state = "stopped"]
      [] event.type = "status_response" -> handleStatusResponse(info, event)
      [] OTHER -> info

\* the 'message' handler's switch: the blocklist.block call it makes, if any
EventBlocks(event) ==
    \/ event.type = "kicked"
    \/ event.type = "connection_failed" /\ event.attempt >= maxConnectionAttempts
EventReason(event) ==
    IF event.type = "kicked" THEN "kicked" ELSE "connection_failures"

\* ------------------------- the state one run of the event loop works on
\* procs: the registry, wk: the children, bm: the blocklist map,
\* ns: save() calls started, ev: calls made
Cur == [procs |-> processes, wk |-> workers, bm |-> blockedMeshes, ns |-> 0, ev |-> {}]

\* a spawnProcess without its blocklist check
spawnGoesBlocked(S, m) == ~Has(S.procs, m)
\* spawnProcess up to its await: does it go on to getMeshInfo?
spawnGoes(S, m) == ~Has(S.procs, m) /\ ~isBlocked(S.bm, m, now)
\* spawnProcess up to its await: the state it leaves
spawnChecked(S, m) ==
    IF Has(S.procs, m) THEN S
    ELSE [S EXCEPT !.bm = isBlockedMap(@, m, now),
                   !.ns = @ + Saves(S.bm, isBlockedMap(S.bm, m, now)),
                   !.ev = @ \cup {DidIsBlocked(S.bm, m, now)}]

\* spawnProcess after getMeshInfo returned a server: fork, processes.set
\* (by: "exit" when called by handleProcessExit, "sync" by syncMeshes)
spawnForked(S, m, by) ==
    [S EXCEPT !.wk = MapSet(@, FreePid(S.wk), NewWorker(m)),
              !.procs = Put(@, NewProcessInfo(m, FreePid(S.wk))),
              !.ev = @ \cup {Did("fork", m, by = "exit", 0)}]

\* stopProcess up to its await: does it wait out the grace period?
stopWaitsGrace(S, m) == Has(S.procs, m) /\ ~Killed(S.wk, Get(S.procs, m).process)
\* stopProcess up to its await (or to its end): the state it leaves
stopBegun(S, m) ==
    IF ~Has(S.procs, m) THEN S
    ELSE IF Killed(S.wk, Get(S.procs, m).process)
    THEN [S EXCEPT !.procs = Delete(@, m), !.ev = @ \cup {Did("stopped", m, TRUE, 0)}]
    ELSE [S EXCEPT !.wk = SendShutdown(@, Get(S.procs, m).process),
                   !.ev = @ \cup {Did("shutdown", m, TRUE, 0)}]
\* stopProcess after the grace period, on the child p it captured
stopEndedKeeps(S, m, p) ==
    [S EXCEPT !.wk = IF Killed(@, p) THEN @ ELSE Kill(@, p),
              !.ev = @ \cup {Did("stopped", m, TRUE, 0)}]
stopEnded(S, m, p) ==
    [S EXCEPT !.wk = IF Killed(@, p) THEN @ ELSE Kill(@, p),
              !.procs = Delete(@, m),
              !.ev = @ \cup {Did("stopped", m, TRUE, 0)}]

\* ---------------------------------------------------------- syncMeshes
\* new Set(ids): the ids in order of first occurrence
RECURSIVE Dedup(_)
Dedup(seq) ==
    IF seq = <<>> THEN <<>>
    ELSE LET d == Dedup(SubSeq(seq, 1, Len(seq) - 1))
         IN IF seq[Len(seq)] \in Range(d) THEN d ELSE Append(d, seq[Len(seq)])

NotIn(x, seq) == x \notin Range(seq)
newMeshIds(procs, list) == SelectSeq(Dedup(list), LAMBDA id : NotIn(id, Keys(procs)))
\* removedMeshIds without its filter: every running mesh counts as removed
removedMeshIdsUnfiltered(procs, list) == Keys(procs)
removedMeshIds(procs, list) == SelectSeq(Keys(procs), LAMBDA id : NotIn(id, list))

\* where a run of syncMeshes stands when it suspends (pc: wait, lookup, grace)
\* or returns (pc: end)
At(S, pc, new, removed, child) ==
    [S |-> S, pc |-> pc, new |-> new, removed |-> removed, child |-> child]

\* the loop over removedMeshIds, from the head of removed
RECURSIVE stopLoop(_, _)
stopLoop(S, removed) ==
    IF removed = <<>> THEN At(S, "end", <<>>, <<>>, 0)
    ELSE IF stopWaitsGrace(S, Head(removed))
    THEN At(stopBegun(S, Head(removed)), "grace", <<>>, removed,
            Get(S.procs, Head(removed)).process)
    ELSE stopLoop(stopBegun(S, Head(removed)), Tail(removed))

\* the loop over newMeshIds, once spawnProcess has returned for the head of new
spawnNext(S, new, removed) ==
    IF Tail(new) # <<>> THEN At(S, "wait", Tail(new), removed, 0)
    ELSE stopLoop(S, removed)

\* the loop over newMeshIds calls spawnProcess for the head of new
spawnCall(S, new, removed) ==
    IF spawnGoes(S, Head(new))
    THEN At(spawnChecked(S, Head(new)), "lookup", new, removed, 0)
    ELSE spawnNext(spawnChecked(S, Head(new)), new, removed)

\* syncMeshes(meshesData), up to its first suspension
syncMeshes(S, list) ==
    IF newMeshIds(S.procs, list) = <<>>
    THEN stopLoop(S, removedMeshIds(S.procs, list))
    ELSE spawnCall(S, newMeshIds(S.procs, list), removedMeshIds(S.procs, list))

\* the discovery tick's cleanupExpiredBlocks() after syncMeshes
swept(S) ==
    [S EXCEPT !.bm = cleanupExpiredBlocks(@, now),
              !.ns = @ + Saves(S.bm, cleanupExpiredBlocks(S.bm, now)),
              !.ev = @ \cup {Did("cleanupExpiredBlocks", 0, TRUE, 0)}]

\* blocklist.load() once readFile resolved with parseable content
loaded(S, data) ==
    swept([S EXCEPT !.bm = [m \in (DOMAIN S.bm) \cup {e.meshId : e \in data} |->
                              IF \E e \in data : e.meshId = m
                              THEN FromJSON(data)[m] ELSE S.bm[m]],
                    !.ev = @ \cup {Did("loaded", e.meshId, e.blockedUntil = Null,
                                       e.blockedUntil) : e \in data}])

\* ------------------------------------------------------------- runners
\* list: currentMeshIds, the ids syncMeshes was called with; again is history:
\* whether the run repeats the last run to end, with nothing having happened
\* since and no other run in flight (1), which moreover left a record for
\* exactly the listed meshes (2)
Idle == [kind |-> "idle", pc |-> "idle", new |-> <<>>, removed |-> <<>>, child |-> 0,
         list |-> {}, again |-> 0]
Runner(kind, pc, new, removed, child) ==
    [kind |-> kind, pc |-> pc, new |-> new, removed |-> removed, child |-> child,
     list |-> {}, again |-> 0]
Unquiet(run) == [s \in DOMAIN run |-> [run[s] EXCEPT !.again = 0]]
OnlyRun(slot) == \A q \in Slots \ {slot} : runners[q] = Idle
Again(slot, list) ==
    IF synced.valid /\ synced.list = list /\ OnlyRun(slot)
    THEN (IF synced.exact THEN 2 ELSE 1)
    ELSE 0
HasFreeSlot == \E s \in Slots : runners[s] = Idle
FreeSlot == CHOOSE s \in Slots : runners[s] = Idle /\ \A q \in Slots : q < s => runners[q] # Idle

\* the children still held by the registry or by a stopProcess call
Refs(procs, run, sw) ==
    {procs[i].process : i \in DOMAIN procs}
        \cup {run[s].child : s \in {q \in Slots : run[q].pc = "grace"}}
        \cup {c.child : c \in sw}

\* ---- history kept beside the supervisor
Taints(ev) ==
    IF \E e \in ev : e.op = "stop" THEN Meshes
    ELSE {e.mesh : e \in {x \in ev : x.op \in {"shutdown", "stopped", "block"}}}
Respawned(ev) == {e.mesh : e \in {x \in ev : x.op = "fork" /\ x.result}}
HistRespawns(ev) ==
    /\ excused' = excused \cup Taints(ev)
    /\ respawns' = [m \in Meshes |->
          IF m \in excused \cup Taints(ev) THEN 0
          ELSE IF m \in Respawned(ev) THEN Min(respawns[m] + 1, maxProcessRestarts + 1)
          ELSE respawns[m]]

\* the run of the event loop ends: the state it worked on becomes the state
Commit(S, run2, sw2, sy2) ==
    /\ processes' = S.procs
    /\ workers' = Reap(S.wk, Refs(S.procs, run2, sw2))
    /\ BlocklistBecomes(S.bm, S.ns)
    /\ runners' = run2
    /\ stopWaits' = sw2
    /\ did' = Returned(S.ev)
    /\ Hist(S.ev)
    /\ HistRespawns(S.ev)
    /\ synced' = sy2
    /\ UNCHANGED <<now, dirWritable, otherVars, maxConnectionAttempts, directory, streak,
                   kickedEmitted>>

\* a run of syncMeshes called with the ids list suspends again, or returns and
\* with it the start() call or discovery tick
Land(slot, R, list, again) ==
    /\ Commit(IF R.pc = "end" /\ runners[slot].kind = "tick" THEN swept(R.S) ELSE R.S,
              [Unquiet(runners) EXCEPT ![slot] =
                  IF R.pc = "end" THEN Idle
                  ELSE [Runner(runners[slot].kind, R.pc, R.new, R.removed, R.child)
                            EXCEPT !.list = list, !.again = again]],
              stopWaits,
              IF R.pc = "end"
              THEN [list |-> list, exact |-> Range(Keys(R.S.procs)) = list,
                    again |-> again, valid |-> TRUE]
              ELSE synced)
    /\ IF R.pc = "end" /\ runners[slot].kind = "start"
       THEN /\ timers < MaxTimers
            /\ monitoring' = TRUE
            /\ discoveryInterval' = TRUE
            /\ timers' = timers + 1
       ELSE UNCHANGED <<monitoring, discoveryInterval, timers>>
    /\ UNCHANGED <<isRunning, shutdownRequested, exitDelay, spawnLookup>>

\* --------------------------------------------------- supervisor actions
\* the lists a directory fetch can return
Lists == UNION {[1..n -> directory] : n \in 0..MaxListLen}
LookupResults == {"server", "none", "throws"}

\* start(): up to await deleteAllInvites
Start ==
    /\ ~isRunning
    /\ HasFreeSlot
    /\ isRunning' = TRUE
    /\ shutdownRequested' = FALSE
    /\ runners' = [runners EXCEPT ![FreeSlot] = Runner("start", "invites", <<>>, <<>>, 0)]
    /\ did' = {}
    /\ UNCHANGED <<now, blVars, ioFailed, blHist, mgrHist, dirWritable, otherVars, maxConnectionAttempts,
                   directory, processes, workers, discoveryInterval, timers,
                   monitoring, stopWaits, exitDelay, spawnLookup>>

\* start(): deleteAllInvites resolved (on to blocklist.load) or rejected
\* (start() rejects, isRunning stays true)
StartInvitesDone(slot, ok) ==
    /\ runners[slot].pc = "invites"
    /\ runners' = [runners EXCEPT ![slot] =
                      IF ok THEN Runner("start", "load", <<>>, <<>>, 0) ELSE Idle]
    /\ did' = {}
    /\ UNCHANGED <<now, blVars, ioFailed, blHist, mgrHist, dirWritable, otherVars, maxConnectionAttempts,
                   directory, processes, workers, isRunning, shutdownRequested,
                   discoveryInterval, timers, monitoring, stopWaits, exitDelay,
                   spawnLookup>>

\* start(): blocklist.load() read the file (or failed to), on to fetchMeshes
StartLoaded(slot, readOk) ==
    /\ runners[slot].pc = "load"
    /\ Commit(IF readOk /\ file.status = "ok" THEN loaded(Cur, file.data) ELSE Cur,
              [runners EXCEPT ![slot] = Runner("start", "fetch", <<>>, <<>>, 0)],
              stopWaits, NoSync)
    /\ UNCHANGED <<isRunning, shutdownRequested, discoveryInterval, timers,
                   monitoring, exitDelay, spawnLookup>>

\* the discovery interval fires: returns at once after shutdown, else fetchMeshes
DiscoveryTick ==
    /\ timers > 0
    /\ HasFreeSlot
    /\ runners' = IF shutdownRequested THEN runners
                  ELSE [Unquiet(runners) EXCEPT ![FreeSlot] =
                           Runner("tick", "fetch", <<>>, <<>>, 0)]
    /\ did' = {}
    /\ UNCHANGED <<now, blVars, ioFailed, blHist, mgrHist, dirWritable, otherVars, maxConnectionAttempts,
                   directory, processes, workers, isRunning, shutdownRequested,
                   discoveryInterval, timers, monitoring, stopWaits, exitDelay,
                   spawnLookup>>

\* fetchMeshes returned: the list, or [] when the fetch failed; syncMeshes begins
Fetched(slot, list, ok) ==
    /\ runners[slot].pc = "fetch"
    /\ Land(slot,
            syncMeshes(Cur, IF ok THEN list ELSE <<>>),
            IF ok THEN Range(list) ELSE {},
            Again(slot, IF ok THEN Range(list) ELSE {}))

\* syncMeshes: the 500 ms rate-limit wait is over, spawnProcess is called
Waited(slot) ==
    /\ runners[slot].pc = "wait"
    /\ Land(slot, spawnCall(Cur, runners[slot].new, runners[slot].removed),
            runners[slot].list, runners[slot].again)

\* syncMeshes: getMeshInfo returned to spawnProcess
Looked(slot, result) ==
    /\ runners[slot].pc = "lookup"
    /\ result = "server" => HasFreePid(workers)
    /\ Land(slot, spawnNext(IF result = "server"
                            THEN spawnForked(Cur, Head(runners[slot].new), "sync")
                            ELSE Cur,
                            runners[slot].new, runners[slot].removed),
            runners[slot].list, runners[slot].again)

\* syncMeshes: the grace period of stopProcess is over
Graced(slot) ==
    /\ runners[slot].pc = "grace"
    /\ Land(slot, stopLoop(stopEnded(Cur, Head(runners[slot].removed), runners[slot].child),
                           Tail(runners[slot].removed)),
            runners[slot].list, runners[slot].again)

\* a stopProcess without its catch: the exception ends the pass
GracedRethrows(slot) ==
    /\ runners[slot].pc = "grace"
    /\ ~Killed(workers, runners[slot].child)
    /\ Land(slot, At(Cur, "end", <<>>, <<>>, 0),
            runners[slot].list, runners[slot].again)
\* syncMeshes: the grace period of stopProcess is over and kill() throws; the
\* catch of stopProcess logs it, the record stays, the loop goes on
GracedThrows(slot) ==
    /\ runners[slot].pc = "grace"
    /\ ~Killed(workers, runners[slot].child)
    /\ Land(slot, stopLoop(Cur, Tail(runners[slot].removed)),
            runners[slot].list, runners[slot].again)

\* stop(): stopProcess is called for every key of the registry
RECURSIVE stopAll(_, _)
stopAll(S, keys) ==
    IF keys = <<>> THEN S ELSE stopAll(stopBegun(S, Head(keys)), Tail(keys))

StopCalls ==
    {[mesh |-> m, child |-> Get(processes, m).process] :
        m \in {k \in Range(Keys(processes)) : stopWaitsGrace(Cur, k)}}

Stop ==
    /\ isRunning
    /\ StopCalls \cap stopWaits = {}
    /\ isRunning' = FALSE
    /\ shutdownRequested' = TRUE
    /\ discoveryInterval' = FALSE
    /\ timers' = IF discoveryInterval THEN timers - 1 ELSE timers
    /\ monitoring' = FALSE
    /\ Commit([stopAll(Cur, Keys(processes)) EXCEPT !.ev = @ \cup {Did("stop", 0, TRUE, 0)}],
              Unquiet(runners), stopWaits \cup StopCalls, NoSync)
    /\ UNCHANGED <<exitDelay, spawnLookup>>

\* stop(): the grace period of one of its stopProcess calls is over
StopGraced(c) ==
    /\ c \in stopWaits
    /\ Commit(stopEnded(Cur, c.mesh, c.child), Unquiet(runners), stopWaits \ {c}, NoSync)
    /\ UNCHANGED <<isRunning, shutdownRequested, discoveryInterval, timers,
                   monitoring, exitDelay, spawnLookup>>

\* child.on('message'): the oldest unhandled message of child p
HandleMessage(p) ==
    /\ p \in DOMAIN workers
    /\ workers[p].outbox # <<>>
    /\ LET m == workers[p].mesh
           ipcMessage == parseIPCMessage(Head(workers[p].outbox))
           \* isEvent: the payload; isStatusResponse: the status
           event == IF ipcMessage.js = "null" THEN [type |-> "none"]
                    ELSE IF ipcMessage.type = "status_response"
                    THEN [ipcMessage.payload EXCEPT !.type = "status_response"]
                    ELSE IF ipcMessage.type = "event" THEN ipcMessage.payload
                    ELSE [type |-> "none"]
           S1 == [Cur EXCEPT !.wk[p].outbox = Tail(@),
                             !.wk[p].readyHandled = @ \/ event.type = "ready",
                             !.wk[p].leaveHandled = @ \/ event.type = "intentional_leave",
                             !.wk[p].closeHandled =
                                 \/ @
                                 \/ /\ Has(processes, m)
                                    /\ event.type = "disconnected"
                                    /\ event.reason = "Server disconnected"]
           S2 == IF ipcMessage.js = "null" \/ ~Has(processes, m) THEN S1
                 ELSE [S1 EXCEPT !.procs =
                         Put(@, OnEvent([Get(processes, m) EXCEPT !.lastHeartbeat = now],
                                        event))]
           S3 == IF Has(processes, m) /\ EventBlocks(event)
                 THEN [S2 EXCEPT !.bm = block(@, m, EventReason(event), NoDuration, now),
                                 !.ns = 1,
                                 !.ev = @ \cup {DidBlock(m, EventReason(event), NoDuration)}]
                 ELSE S2
       IN Commit(S3, Unquiet(runners), stopWaits, NoSync)
    /\ UNCHANGED <<isRunning, shutdownRequested, discoveryInterval, timers,
                   monitoring, exitDelay, spawnLookup>>

exitRestartsByBudget(procs, m) ==
    /\ Has(procs, m)
    /\ ~shutdownRequested
    /\ Get(procs, m).retryCount < maxProcessRestarts
\* handleProcessExit up to its await: the registry it leaves
exitRestarts(procs, m) ==
    /\ Has(procs, m)
    /\ Get(procs, m).state # "stopped"
    /\ ~Get(procs, m).kicked
    /\ Get(procs, m).state # "blocked"
    /\ ~Get(procs, m).serverDisconnected
    /\ ~shutdownRequested
    /\ Get(procs, m).retryCount < maxProcessRestarts

exitHandled(procs, m) ==
    IF ~Has(procs, m) THEN procs
    ELSE IF exitRestarts(procs, m)
    THEN Put(procs, [Get(procs, m) EXCEPT !.retryCount = @ + 1, !.state = "restarting"])
    ELSE Delete(procs, m)

\* child.on('exit') of child p: handleProcessExit(meshId) up to its await
HandleExit(p) ==
    /\ p \in DOMAIN workers
    /\ workers[p].exitPending
    /\ exitRestarts(processes, workers[p].mesh) => exitDelay[workers[p].mesh] < MaxExitWaits
    /\ exitDelay' = IF exitRestarts(processes, workers[p].mesh)
                    THEN [exitDelay EXCEPT ![workers[p].mesh] = @ + 1] ELSE exitDelay
    /\ Commit([Cur EXCEPT !.wk[p].exitPending = FALSE,
                          !.procs = exitHandled(@, workers[p].mesh)],
              Unquiet(runners), stopWaits, NoSync)
    /\ UNCHANGED <<isRunning, shutdownRequested, discoveryInterval, timers,
                   monitoring, spawnLookup>>

\* handleProcessExit: the restart delay is over; processes.delete, then
\* spawnProcess up to its await
ExitDelayed(m) ==
    /\ exitDelay[m] > 0
    /\ LET S == [Cur EXCEPT !.procs = Delete(@, m)]
       IN /\ spawnGoes(S, m) => spawnLookup[m] < MaxExitWaits
          /\ spawnLookup' = IF spawnGoes(S, m) THEN [spawnLookup EXCEPT ![m] = @ + 1]
                            ELSE spawnLookup
          /\ Commit(spawnChecked(S, m), Unquiet(runners), stopWaits, NoSync)
    /\ exitDelay' = [exitDelay EXCEPT ![m] = @ - 1]
    /\ UNCHANGED <<isRunning, shutdownRequested, discoveryInterval, timers, monitoring>>

\* handleProcessExit: getMeshInfo returned to its spawnProcess
ExitLooked(m, result) ==
    /\ spawnLookup[m] > 0
    /\ result = "server" => HasFreePid(workers)
    /\ spawnLookup' = [spawnLookup EXCEPT ![m] = @ - 1]
    /\ Commit(IF result = "server" THEN spawnForked(Cur, m, "exit") ELSE Cur,
              Unquiet(runners), stopWaits, NoSync)
    /\ UNCHANGED <<isRunning, shutdownRequested, discoveryInterval, timers,
                   monitoring, exitDelay>>

\* ------------------------------------------------------------- broadcast
\* a broadcast that gives up at the first send that throws
broadcastAbortsOnFailure(command, throws) ==
    /\ LET Sent(i) == /\ ~Killed(workers, processes[i].process)
                      /\ \A j \in 1..i : processes[j].process \notin throws
           wk == [p \in DOMAIN workers |->
                    IF /\ command = "shutdown" /\ workers[p].alive
                       /\ \E i \in DOMAIN processes : processes[i].process = p /\ Sent(i)
                    THEN [workers[p] EXCEPT !.shutdown = TRUE]
                    ELSE workers[p]]
       IN Commit([Cur EXCEPT !.wk = wk], Unquiet(runners), stopWaits, NoSync)
    /\ UNCHANGED <<isRunning, shutdownRequested, discoveryInterval, timers,
                   monitoring, exitDelay, spawnLookup>>

\* broadcastCommand(command): process.send to the child of every record whose
\* child is not killed; throws: the children on which send throws.  Of the
\* commands only shutdown changes what is modelled of a worker.
broadcastCommand(command, throws) ==
    /\ LET Sent(i) == /\ ~Killed(workers, processes[i].process)
                      /\ processes[i].process \notin throws
           wk == [p \in DOMAIN workers |->
                    IF /\ command = "shutdown" /\ workers[p].alive
                       /\ \E i \in DOMAIN processes : processes[i].process = p /\ Sent(i)
                    THEN [workers[p] EXCEPT !.shutdown = TRUE]
                    ELSE workers[p]]
       IN Commit([Cur EXCEPT !.wk = wk], Unquiet(runners), stopWaits, NoSync)
    /\ UNCHANGED <<isRunning, shutdownRequested, discoveryInterval, timers,
                   monitoring, exitDelay, spawnLookup>>

\* ------------------------------------------------------- health monitor
\* the heartbeat age, in ticks of the clock, above which a record is unhealthy
unhealthyThreshold == 1

\* a health check that skips no record
skipsNothing(state) == FALSE
\* performHealthCheck: the records its loop passes over (continue)
skipsRecord(state) == state \in {"stopped", "blocked"}

\* ProcessMonitor.performHealthCheck, a tick of the monitor interval: every
\* record not STOPPED or BLOCKED is sent a status_request (requestStatus)
\* and, if its heartbeat is older than the threshold and it is not marked
\* UNHEALTHY yet, is marked and its child killed (handleUnhealthyProcess)
performHealthCheck ==
    /\ monitoring
    /\ LET Polled(i) == ~skipsRecord(processes[i].state)
           Stale(i) == now - processes[i].lastHeartbeat > unhealthyThreshold
           Marked(i) == Polled(i) /\ Stale(i) /\ processes[i].state # "unhealthy"
           Of(p) == CHOOSE i \in DOMAIN processes : processes[i].process = p
           Held(p) == \E i \in DOMAIN processes : processes[i].process = p
           procs == [i \in DOMAIN processes |->
                       IF Marked(i) THEN [processes[i] EXCEPT !.state = "unhealthy"]
                       ELSE processes[i]]
           wk == [p \in DOMAIN workers |->
                    IF ~Held(p) THEN workers[p]
                    ELSE LET w == [workers[p] EXCEPT
                                      !.asked = @ \/ (Polled(Of(p)) /\ workers[p].alive
                                                        /\ ~workers[p].killed),
                                      !.overdue = @ \/ Stale(Of(p))]
                         IN IF Marked(Of(p)) /\ ~w.killed /\ w.alive
                            THEN [Dead(w) EXCEPT !.killed = TRUE]
                            ELSE w]
       IN Commit([Cur EXCEPT !.procs = procs, !.wk = wk], Unquiet(runners), stopWaits, NoSync)
    /\ UNCHANGED <<isRunning, shutdownRequested, discoveryInterval, timers,
                   monitoring, exitDelay, spawnLookup>>

\* ------------------------------------------------------- worker actions
\* a worker that counts the attempt again when bot.run() returns
postRunRecounts(w) ==
    <<EvConnectionFailed(w.connectionAttempts + 1), EvDisconnected("Connection lost")>>
\* mesh-worker after worker.start() returned with running still true and no
\* server-initiated disconnect: the events it sends before process.exit(1)
postRun(w) ==
    IF w.connectionAttempts >= workerMaxConnectionAttempts
    THEN <<EvConnectionFailed(w.connectionAttempts)>>
    ELSE <<EvConnectionFailed(w.connectionAttempts), EvDisconnected("Connection lost")>>

\* child p sends msgs, and exits if dies
WorkerStep(p, phase, attempts, msgs, dies) ==
    /\ p \in DOMAIN workers
    /\ workers[p].alive
    /\ Len(workers[p].outbox) + Len(msgs) <= MaxOutbox
    /\ LET \* createEvent: the timestamp is Date.now(), positive
           sent == [i \in DOMAIN msgs |->
                      [js |-> "object", type |-> "event", timestamp |-> 1,
                       payload |-> msgs[i]]]
       IN workers' = [workers EXCEPT ![p] =
                         IF dies THEN Dead([@ EXCEPT !.outbox = @ \o sent])
                         ELSE [@ EXCEPT !.outbox = @ \o sent, !.phase = phase,
                                        !.connectionAttempts = attempts]]
    /\ did' = {}
    /\ synced' = NoSync
    /\ runners' = Unquiet(runners)
    /\ UNCHANGED <<now, blVars, ioFailed, blHist, dirWritable, otherVars, maxConnectionAttempts,
                   directory, processes, isRunning, shutdownRequested, discoveryInterval,
                   timers, monitoring, stopWaits, exitDelay, spawnLookup>>

Taint(m) ==
    /\ excused' = excused \cup {m}
    /\ respawns' = [respawns EXCEPT ![m] = 0]

\* initialize() done: ready is sent, worker.start() counts the attempt and
\* bot.run() starts connecting
WReady(p) ==
    /\ WorkerStep(p, "ready", workers[p].connectionAttempts + 1, <<EvReady>>, FALSE)
    /\ workers[p].phase = "init"
    /\ UNCHANGED <<respawns, excused, streak, kickedEmitted>>

WConnectedEarly(p) ==
    /\ WorkerStep(p, "connected", 0, <<EvConnected>>, FALSE)
    /\ workers[p].phase \in {"init", "ready"}
    /\ streak' = [streak EXCEPT ![workers[p].mesh] = 0]
    /\ UNCHANGED <<respawns, excused, kickedEmitted>>
\* on_connected: connected is sent, resetConnectionAttempts()
WConnected(p) ==
    /\ WorkerStep(p, "connected", 0, <<EvConnected>>, FALSE)
    /\ workers[p].phase = "ready"
    /\ streak' = [streak EXCEPT ![workers[p].mesh] = 0]
    /\ UNCHANGED <<respawns, excused, kickedEmitted>>

\* bot.run() returns without a connection
WConnectFailed(p) ==
    /\ WorkerStep(p, "dead", 0, postRun(workers[p]), TRUE)
    /\ workers[p].phase = "ready"
    /\ streak' = [streak EXCEPT ![workers[p].mesh] = Min(@ + 1, MaxStreak)]
    /\ UNCHANGED <<respawns, excused, kickedEmitted>>

\* the connection is lost (after a leave command too: the poll in bot.run()
\* may beat the leave command's exit timer)
WLost(p) ==
    /\ WorkerStep(p, "dead", 0, postRun(workers[p]), TRUE)
    /\ workers[p].phase \in {"connected", "left"}
    /\ UNCHANGED <<respawns, excused, streak, kickedEmitted>>

\* on_kicked: kicked is sent, process.exit(0)
WKicked(p) ==
    /\ WorkerStep(p, "dead", 0, <<EvKicked>>, TRUE)
    /\ workers[p].phase = "connected"
    /\ kickedEmitted' = kickedEmitted \cup {workers[p].mesh}
    /\ Taint(workers[p].mesh)
    /\ UNCHANGED streak

\* the server's disconnected notification: disconnected is sent, exit(0) follows
WServerDisconnected(p) ==
    /\ WorkerStep(p, "dead", 0, <<EvDisconnected("Server disconnected")>>, TRUE)
    /\ workers[p].phase = "connected"
    /\ Taint(workers[p].mesh)
    /\ UNCHANGED <<streak, kickedEmitted>>

\* the leave command: the client disconnects, intentional_leave is sent and
\* the exit timer is set
WLeave(p) ==
    /\ WorkerStep(p, "left", workers[p].connectionAttempts, <<EvLeave>>, FALSE)
    /\ workers[p].phase = "connected"
    /\ Taint(workers[p].mesh)
    /\ UNCHANGED <<streak, kickedEmitted>>

\* the leave command's exit timer fires: process.exit(0)
WLeft(p) ==
    /\ WorkerStep(p, "dead", 0, <<>>, TRUE)
    /\ workers[p].phase = "left"
    /\ UNCHANGED <<respawns, excused, streak, kickedEmitted>>

\* the shutdown command is handled: worker.stop(), process.exit(0)
WShutdown(p) ==
    /\ WorkerStep(p, "dead", 0, <<>>, TRUE)
    /\ workers[p].shutdown
    /\ UNCHANGED <<respawns, excused, streak, kickedEmitted>>

\* a fatal error or uncaught exception: process.exit(1) (the error event it
\* sends first changes nothing that is modelled)
WCrash(p) ==
    /\ WorkerStep(p, "dead", 0, <<>>, TRUE)
    /\ UNCHANGED <<respawns, excused, streak, kickedEmitted>>

\* the child's 'message' handler on a status_request: getStatus() is sent
WStatus(p) ==
    /\ p \in DOMAIN workers
    /\ workers[p].alive /\ workers[p].asked
    /\ Len(workers[p].outbox) < MaxOutbox
    /\ workers' = [workers EXCEPT
          ![p].asked = FALSE,
          ![p].outbox = Append(@,
              [js |-> "object", type |-> "status_response", timestamp |-> 1,
               payload |-> [type |-> "status", connected |-> workers[p].phase = "connected",
                            retryCount |-> 0,
                            connectionAttempts |-> workers[p].connectionAttempts]])]
    /\ did' = {}
    /\ synced' = NoSync
    /\ runners' = Unquiet(runners)
    /\ UNCHANGED <<now, blVars, ioFailed, blHist, dirWritable, otherVars,
                   maxConnectionAttempts, directory, processes, isRunning,
                   shutdownRequested, discoveryInterval, timers, monitoring, stopWaits,
                   exitDelay, spawnLookup, respawns, excused, streak, kickedEmitted>>

\* child p's channel delivers something that is not a message built by
\* createIPCMessage
WRaw(p, data) ==
    /\ p \in DOMAIN workers
    /\ workers[p].alive
    /\ Len(workers[p].outbox) < MaxOutbox
    /\ workers' = [workers EXCEPT ![p].outbox = Append(@, data)]
    /\ did' = {}
    /\ synced' = NoSync
    /\ runners' = Unquiet(runners)
    /\ UNCHANGED <<now, blVars, ioFailed, blHist, dirWritable, otherVars,
                   maxConnectionAttempts, directory, processes, isRunning,
                   shutdownRequested, discoveryInterval, timers, monitoring, stopWaits,
                   exitDelay, spawnLookup, respawns, excused, streak, kickedEmitted>>

WorkerNext(p) ==
    \/ WReady(p)
    \/ WConnected(p)
    \/ WConnectFailed(p)
    \/ WLost(p)
    \/ WKicked(p)
    \/ WServerDisconnected(p)
    \/ WLeave(p)
    \/ WLeft(p)
    \/ WShutdown(p)
    \/ WCrash(p)
    \/ WStatus(p)
    \/ \E data \in RawMessages : WRaw(p, data)

\* ------------------------------------------------------------ websocket client
\* RaveWebSocketClient of a worker: the requests it sends over the protoo
\* socket, their response channels and timeouts, the keepalive loop and
\* disconnect().  Every method below runs without an await before its last
\* effect, so each is one step.
NumIds == 2
MaxCalls == 3
MaxPingLoops == 2

\* Request ids are 1..NumIds.  ProtooRequest.id is Math.floor(Date.now() %
\* 1000000): requests created in the same millisecond (or 1000 s apart)
\* carry the same id, so a call may draw any id, used or not.

Unguarded == TRUE
\* Date.now(): positive
DateNow == now + 1
\* the close code a socket closed by the peer or by a failure reports
AbnormalClosure == 1006
\* the 5000 ms under which a close counts as immediate, in ticks of the clock
immediateWindow == 1
\* the guard of sendRequest, sendNotification and the ping interval
Usable == ~isTerminated /\ isConnected /\ websocket # "null"

\* clearTimeout of call c's timeout, then resolve(v) of its promise: a
\* settled promise stays as it is
resolve(c, v) ==
    [calls EXCEPT ![c].timer = FALSE,
                  ![c].state = IF @ = "pending" THEN v ELSE @]

\* sendRequest(request) with request.method = method and request.id = id
\* (method "request" stands for every method but clientPing); ok: toJson and websocket.send
\* do not throw.  The second check of the flags is made in the same run as
\* the first and finds what the first found.
send(method, id, ok) ==
    /\ Len(calls) < MaxCalls
    /\ UNCHANGED <<isConnected, isTerminated, websocket, pingDelays, intervals, pingTimer>>
    /\ IF ~Usable
       THEN /\ calls' = Append(calls, [id |-> id, state |-> "null", timer |-> FALSE, late |-> isTerminated,
                                    wire |-> FALSE, by |-> 0])
            /\ wrote' = "none"
            /\ UNCHANGED <<responseChannels, inflight>>
       ELSE IF ok
       THEN /\ calls' = Append(calls, [id |-> id, state |-> "pending", timer |-> TRUE, late |-> isTerminated,
                                    wire |-> websocket = "open", by |-> 0])
            /\ responseChannels' = [responseChannels EXCEPT ![id] = Len(calls) + 1]
            /\ inflight' = IF websocket = "open"
                           THEN [inflight EXCEPT ![id] = @ + 1] ELSE inflight
            /\ wrote' = IF method = "clientPing" THEN "ping" ELSE "request"
       ELSE /\ calls' = Append(calls, [id |-> id, state |-> "null", timer |-> FALSE, late |-> isTerminated,
                                    wire |-> FALSE, by |-> 0])
            /\ responseChannels' = [responseChannels EXCEPT ![id] = 0]
            /\ wrote' = "none"
            /\ UNCHANGED inflight

sendRequest(method, id, ok) == send(method, id, ok) /\ UNCHANGED sessionVars
\* sendPingRequest(): sendRequest of a clientPing request
sendPingRequest(id, ok) == send("clientPing", id, ok)

\* the 8 s timeout of call c fires: it looks up the channel stored under
\* the id of its request, whichever call stored it
RequestTimeout(c) ==
    /\ UNCHANGED sessionVars
    /\ c \in DOMAIN calls /\ calls[c].timer
    /\ LET id == calls[c].id IN
       IF responseChannels[id] # 0
       THEN /\ responseChannels' = [responseChannels EXCEPT ![id] = 0]
            /\ calls' = resolve(c, "null")
       ELSE /\ calls' = [calls EXCEPT ![c].timer = FALSE]
            /\ UNCHANGED responseChannels
    /\ wrote' = "none"
    /\ UNCHANGED <<isConnected, isTerminated, websocket, pingDelays, intervals, pingTimer,
                   inflight>>

\* handleMessage of a response carrying request id, the answer to call o
\* (history: wire, the request of the call is written and unanswered; by,
\* the call whose response resolved the promise)
handleMessage(id) ==
    /\ UNCHANGED sessionVars
    /\ websocket = "open" /\ inflight[id] > 0
    /\ inflight' = [inflight EXCEPT ![id] = @ - 1]
    /\ \E o \in {x \in DOMAIN calls : calls[x].id = id /\ calls[x].wire} :
          LET c == responseChannels[id] IN
          IF c # 0
          THEN /\ responseChannels' = [responseChannels EXCEPT ![id] = 0]
               /\ calls' = [resolve(c, "response") EXCEPT
                               ![o].wire = FALSE,
                               ![c].by = IF calls[c].state = "pending" THEN o ELSE @]
          ELSE /\ calls' = [calls EXCEPT ![o].wire = FALSE]
               /\ UNCHANGED responseChannels
    /\ wrote' = "none"
    /\ UNCHANGED <<isConnected, isTerminated, websocket, pingDelays, intervals, pingTimer>>

sendNotification(ok) ==
    /\ UNCHANGED sessionVars
    /\ wrote' = IF Usable /\ ok THEN "notification" ELSE "none"
    /\ UNCHANGED <<isConnected, isTerminated, websocket, pingDelays, intervals, pingTimer,
                   responseChannels, calls, inflight>>

\* connect() up to the creation of the socket
Connect ==
    /\ UNCHANGED sessionVars
    /\ ~isConnected /\ ~isTerminated
    /\ websocket' = "connecting"
    /\ wrote' = "none"
    /\ UNCHANGED <<isConnected, isTerminated, pingDelays, intervals, pingTimer,
                   responseChannels, calls, inflight>>

\* the 'open' handler: startPingLoop, then sendFullyJoined
OnOpen(id, ok) ==
    /\ websocket = "connecting"
    /\ pingDelays + intervals < MaxPingLoops /\ Len(calls) < MaxCalls
    /\ isConnected' = TRUE
    /\ websocket' = "open"
    /\ connectionStartTime' = DateNow
    /\ lastCloseCode' = Null
    /\ closedAt' = Null
    /\ UNCHANGED dropped
    /\ pingDelays' = pingDelays + 1
    /\ ticksAhead' = IF pingDelays = 0 THEN intervals ELSE ticksAhead
    /\ LET connected == ~isTerminated IN
       IF connected /\ ok
       THEN /\ calls' = Append(calls, [id |-> id, state |-> "pending", timer |-> TRUE, late |-> isTerminated,
                                    wire |-> TRUE, by |-> 0])
            /\ responseChannels' = [responseChannels EXCEPT ![id] = Len(calls) + 1]
            /\ inflight' = [inflight EXCEPT ![id] = @ + 1]
            /\ wrote' = "request"
       ELSE /\ calls' = Append(calls, [id |-> id, state |-> "null", timer |-> FALSE, late |-> isTerminated,
                                    wire |-> FALSE, by |-> 0])
            /\ responseChannels' = IF connected
                                   THEN [responseChannels EXCEPT ![id] = 0]
                                   ELSE responseChannels
            /\ wrote' = "none"
            /\ UNCHANGED inflight
    /\ UNCHANGED <<isTerminated, intervals, pingTimer>>

\* the 'close' handler of the socket (after the 'error' handler, when the
\* socket failed): the close code is recorded unless disconnect() has run
OnClose ==
    /\ websocket \in {"connecting", "open"}
    /\ websocket' = "closed"
    /\ isConnected' = IF isTerminated THEN isConnected ELSE FALSE
    /\ lastCloseCode' = IF isTerminated THEN lastCloseCode ELSE AbnormalClosure
    /\ closedAt' = IF isTerminated THEN closedAt ELSE DateNow
    /\ UNCHANGED <<dropped, connectionStartTime, ticksAhead>>
    /\ inflight' = [i \in 1..NumIds |-> 0]
    /\ calls' = [c \in DOMAIN calls |-> [calls[c] EXCEPT !.wire = FALSE]]
    /\ wrote' = "none"
    /\ UNCHANGED <<isTerminated, pingDelays, intervals, pingTimer, responseChannels>>

\* the timeout of startPingLoop fires and creates the interval
PingLoopStarts ==
    /\ UNCHANGED <<dropped, connectionStartTime, lastCloseCode, closedAt>>
    /\ ticksAhead' = IF pingDelays > 1 THEN intervals ELSE 0
    /\ pingDelays > 0
    /\ pingDelays' = pingDelays - 1
    /\ intervals' = intervals + 1
    /\ pingTimer' = TRUE
    /\ wrote' = "none"
    /\ UNCHANGED <<isConnected, isTerminated, websocket, responseChannels, calls, inflight>>

\* a tick of a ping interval: sendPingRequest, or stopPingLoop
PingTick(id, ok) ==
    /\ intervals > 0
    /\ pingDelays = 0 \/ ticksAhead > 0
    /\ UNCHANGED <<dropped, connectionStartTime, lastCloseCode, closedAt>>
    /\ ticksAhead' = IF pingDelays = 0 THEN 0 ELSE ticksAhead - 1
    /\ IF Usable
       THEN sendPingRequest(id, ok)
       ELSE /\ pingTimer' = FALSE      \* stopPingLoop
            /\ intervals' = IF pingTimer THEN intervals - 1 ELSE intervals
            /\ wrote' = "none"
            /\ UNCHANGED <<isConnected, isTerminated, websocket, pingDelays,
                           responseChannels, calls, inflight>>

\* disconnect(): it holds disconnectLock from its first line to its last and
\* awaits nothing in between, so no other code finds the lock taken; a call
\* made when already terminated returns at once
disconnect ==
    IF isTerminated
    THEN UNCHANGED <<otherVars, sessionVars>>
    ELSE
    /\ isConnected' = FALSE
    /\ isTerminated' = TRUE
    /\ dropped' = IF websocket \in {"connecting", "open"} THEN "closing" ELSE dropped
    /\ UNCHANGED <<connectionStartTime, lastCloseCode, closedAt>>
    /\ pingTimer' = FALSE      \* stopPingLoop
    /\ intervals' = IF pingTimer THEN intervals - 1 ELSE intervals
    /\ ticksAhead' = IF ticksAhead > intervals' THEN intervals' ELSE ticksAhead
    /\ websocket' = "null"
    /\ calls' = [c \in DOMAIN calls |->
                    [(IF \E i \in 1..NumIds : responseChannels[i] = c
                      THEN resolve(c, "null")[c]
                      ELSE calls[c]) EXCEPT !.wire = FALSE]]
    /\ responseChannels' = [i \in 1..NumIds |-> 0]
    /\ inflight' = [i \in 1..NumIds |-> 0]
    /\ wrote' = "none"
    /\ UNCHANGED pingDelays

\* late socket events whose handlers do not look at isTerminated
OnLateEventUnguarded(event) ==
    /\ dropped = "closing"
    /\ dropped' = IF event = "error" THEN "closing" ELSE "closed"
    /\ isConnected' = (event = "error")
    /\ wrote' = "none"
    /\ UNCHANGED <<isTerminated, websocket, pingDelays, intervals, pingTimer,
                   responseChannels, calls, inflight, connectionStartTime,
                   lastCloseCode, closedAt, ticksAhead>>
\* the events of a socket that disconnect() closed and dropped: 'error'
\* (close() on a socket still connecting aborts the handshake) and 'close';
\* no 'open' follows a close()
OnLateEvent(event) ==
    /\ dropped = "closing"
    /\ dropped' = IF event = "error" THEN "closing" ELSE "closed"
    /\ isConnected' = IF event = "error" \/ ~isTerminated THEN FALSE ELSE isConnected
    /\ lastCloseCode' = IF event = "close" /\ ~isTerminated
                        THEN AbnormalClosure ELSE lastCloseCode
    /\ closedAt' = IF event = "close" /\ ~isTerminated THEN DateNow ELSE closedAt
    /\ wrote' = "none"
    /\ UNCHANGED <<isTerminated, websocket, pingDelays, intervals, pingTimer,
                   responseChannels, calls, inflight, connectionStartTime, ticksAhead>>

\* wasClosedImmediately(): the value returned
wasClosedImmediately ==
    /\ lastCloseCode # Null
    /\ connectionStartTime # 0
    /\ DateNow - connectionStartTime < immediateWindow

InitClient ==
    /\ dropped = "none"
    /\ connectionStartTime = 0
    /\ lastCloseCode = Null
    /\ closedAt = Null
    /\ ticksAhead = 0
    /\ isConnected = FALSE
    /\ isTerminated = FALSE
    /\ websocket = "null"
    /\ pingDelays = 0
    /\ intervals = 0
    /\ pingTimer = FALSE
    /\ responseChannels = [i \in 1..NumIds |-> 0]
    /\ calls = <<>>
    /\ inflight = [i \in 1..NumIds |-> 0]
    /\ wrote = "none"

ClientStep(A) ==
    /\ A
    /\ UNCHANGED <<now, blVars, did, ioFailed, blHist, mgrHist, dirWritable,
                   maxConnectionAttempts, directory, processes, workers, isRunning,
                   shutdownRequested, discoveryInterval, timers, monitoring, runners,
                   stopWaits, exitDelay, spawnLookup>>

ClientNext ==
    \/ ClientStep(Connect)
    \/ \E id \in 1..NumIds, ok \in BOOLEAN : ClientStep(OnOpen(id, ok))
    \/ ClientStep(OnClose)
    \/ \E id \in 1..NumIds, ok \in BOOLEAN : ClientStep(sendRequest("request", id, ok))
    \/ \E c \in 1..MaxCalls : ClientStep(RequestTimeout(c))
    \/ \E id \in 1..NumIds : ClientStep(handleMessage(id))
    \/ \E ok \in BOOLEAN : ClientStep(sendNotification(ok))
    \/ ClientStep(PingLoopStarts)
    \/ \E id \in 1..NumIds, ok \in BOOLEAN : ClientStep(PingTick(id, ok))
    \/ ClientStep(disconnect)

\* ------------------------------------------------------------ specifications
InitBlocklist ==
    /\ now = 0
    /\ blockedMeshes = EmptyMap
    /\ file = NoFile
    /\ savePending = 0
    /\ saveWriting = {}
    /\ did = {}
    /\ everKicked = {}
    /\ ttl = [m \in Meshes |-> Null]
    /\ expiredSeen = {}
    /\ ioFailed = FALSE

\* the ProcessManager as constructed
InitManager ==
    /\ processes = <<>>
    /\ workers = EmptyMap
    /\ isRunning = FALSE
    /\ shutdownRequested = FALSE
    /\ discoveryInterval = FALSE
    /\ timers = 0
    /\ monitoring = FALSE
    /\ runners = [s \in Slots |-> Idle]
    /\ stopWaits = {}
    /\ exitDelay = [m \in Meshes |-> 0]
    /\ spawnLookup = [m \in Meshes |-> 0]
    /\ respawns = [m \in Meshes |-> 0]
    /\ excused = {}
    /\ streak = [m \in Meshes |-> 0]
    /\ kickedEmitted = {}
    /\ synced = NoSync

ManagerNext ==
    \/ Start
    \/ \E s \in Slots, ok \in BOOLEAN : StartInvitesDone(s, ok)
    \/ \E s \in Slots, ok \in BOOLEAN : StartLoaded(s, ok)
    \/ DiscoveryTick
    \/ \E s \in Slots, list \in Lists, ok \in BOOLEAN : Fetched(s, list, ok)
    \/ \E s \in Slots : Waited(s)
    \/ \E s \in Slots, r \in LookupResults : Looked(s, r)
    \/ \E s \in Slots : Graced(s)
    \/ Stop
    \/ \E c \in stopWaits : StopGraced(c)
    \/ \E p \in Pids : HandleMessage(p)
    \/ performHealthCheck
    \/ \E command \in {"shutdown", "refresh_permissions"}, throws \in SUBSET Pids : broadcastCommand(command, throws)
    \/ \E p \in Pids : HandleExit(p)
    \/ \E m \in Meshes : ExitDelayed(m)
    \/ \E m \in Meshes, r \in LookupResults : ExitLooked(m, r)

Next ==
    \/ ManagerNext
    \/ \E p \in Pids : WorkerNext(p)
    \/ SaveStep
    \/ Tick
    \/ ClientNext

\* the whole system: the supervisor over the whole directory, every worker
\* behaviour, a writable blocklist directory
Init ==
    /\ InitBlocklist
    /\ InitManager
    /\ InitClient
    /\ dirWritable = TRUE
    /\ maxConnectionAttempts \in ConfigMaxConnectionAttempts
    /\ directory = Meshes
Spec == Init /\ [][Next]_vars

\* the blocklist alone, called directly
InitAlone ==
    /\ InitBlocklist
    /\ InitManager
    /\ InitClient
    /\ dirWritable = TRUE
    /\ maxConnectionAttempts = 3
    /\ directory = {}
SpecBlocklist == InitAlone /\ [][NextBlocklist]_vars

\* the blocklist files an earlier run can have left: none, a torn one, or
\* one holding at most one entry per mesh
FilesLeft ==
    {NoFile, TornFile} \cup
    {FileOf({NewBlockedMesh(m, r[m], NoDuration, 0) : m \in DOMAIN r}) :
        r \in UNION {[D -> Reasons] : D \in SUBSET Meshes}}
\* the supervisor as constructed, beside a blocklist file left by an earlier
\* run; the directory lists nothing
InitLoad ==
    /\ InitManager
    /\ InitClient
    /\ dirWritable = TRUE
    /\ maxConnectionAttempts = 3
    /\ directory = {}
    /\ now = 0
    /\ blockedMeshes = EmptyMap
    /\ file \in FilesLeft
    /\ savePending = 0
    /\ saveWriting = {}
    /\ did = {}
    /\ everKicked = {}
    /\ ttl = [m \in Meshes |-> Null]
    /\ expiredSeen = {}
    /\ ioFailed = FALSE
\* start() reads the file (or cannot) and goes on to its first, empty fetch
SpecLoad ==
    /\ InitLoad
    /\ [][\/ Start
          \/ \E s \in Slots : StartInvitesDone(s, TRUE)
          \/ \E s \in Slots, ok \in BOOLEAN : StartLoaded(s, ok)
          \/ \E s \in Slots : Fetched(s, <<>>, TRUE)
          \/ SaveStep
          \/ Tick]_vars
\* the directory stops listing mesh m (the mesh has closed)
Delist(m) ==
    /\ m \in directory
    /\ directory' = directory \ {m}
    /\ did' = {}
    /\ synced' = NoSync
    /\ runners' = Unquiet(runners)
    /\ UNCHANGED <<now, blVars, ioFailed, blHist, dirWritable, otherVars,
                   maxConnectionAttempts, processes, workers, isRunning,
                   shutdownRequested, discoveryInterval, timers, monitoring, stopWaits,
                   exitDelay, spawnLookup, respawns, excused, streak, kickedEmitted>>
\* start() and the discovery ticks, short of the wait between two spawns
Discovery ==
    \/ Start
    \/ \E s \in Slots, ok \in BOOLEAN : StartInvitesDone(s, ok)
    \/ \E s \in Slots, ok \in BOOLEAN : StartLoaded(s, ok)
    \/ DiscoveryTick
    \/ \E s \in Slots, list \in Lists, ok \in BOOLEAN : Fetched(s, list, ok)
    \/ \E s \in Slots, r \in LookupResults : Looked(s, r)
    \/ \E s \in Slots : Graced(s)

\* the handlers of a child's exit
ExitHandlers ==
    \/ \E p \in Pids : HandleExit(p)
    \/ \E m \in Meshes : ExitDelayed(m)
    \/ \E m \in Meshes, r \in LookupResults : ExitLooked(m, r)

\* one mesh whose workers connect, fail to connect, lose the connection or
\* crash; the blocklist directory is unwritable, the clock stands still
InitRestarts ==
    /\ InitBlocklist
    /\ InitManager
    /\ InitClient
    /\ dirWritable = FALSE
    /\ maxConnectionAttempts = 3
    /\ directory = {1}
NextRestarts ==
    \/ Discovery
    \/ \E p \in Pids : HandleMessage(p)
    \/ ExitHandlers
    \/ \E p \in Pids : WReady(p)
    \/ \E p \in Pids : WConnected(p)
    \/ \E p \in Pids : WConnectFailed(p)
    \/ \E p \in Pids : WLost(p)
    \/ \E p \in Pids : WCrash(p)
    \/ \E p \in Pids : WShutdown(p)
SpecRestarts == InitRestarts /\ [][NextRestarts]_vars

\* one mesh whose workers connect and are kicked
NextKicked ==
    \/ Discovery
    \/ \E p \in Pids : HandleMessage(p)
    \/ ExitHandlers
    \/ \E p \in Pids : WReady(p)
    \/ \E p \in Pids : WConnected(p)
    \/ \E p \in Pids : WKicked(p)
    \/ \E p \in Pids : WShutdown(p)
    \/ Tick
SpecKicked == InitRestarts /\ [][NextKicked]_vars

\* the whole directory, with workers that obey shutdown
InitSync ==
    /\ InitBlocklist
    /\ InitManager
    /\ InitClient
    /\ dirWritable = FALSE
    /\ maxConnectionAttempts = 3
    /\ directory = Meshes
NextSync ==
    \/ Discovery
    \/ \E s \in Slots : Waited(s)
    \/ ExitHandlers
    \/ \E p \in Pids : WShutdown(p)
SpecSync == InitSync /\ [][NextSync]_vars

\* the whole directory, listed and then delisted, with workers that report
\* and crash, lookups that fail and stop calls whose kill() throws
SpecIsolation ==
    /\ InitSync
    /\ [][\/ Start
          \/ \E s \in Slots : StartInvitesDone(s, TRUE)
          \/ \E s \in Slots : StartLoaded(s, TRUE)
          \/ DiscoveryTick
          \/ \E s \in Slots, list \in {<<1, 2>>, <<>>} : Fetched(s, list, TRUE)
          \/ \E s \in Slots : Waited(s)
          \/ \E s \in Slots, r \in {"server", "throws"} : Looked(s, r)
          \/ \E s \in Slots : GracedThrows(s)
          \/ \E p \in Pids : HandleMessage(p)
          \/ \E p \in Pids : HandleExit(p)
          \/ \E m \in Meshes : ExitDelayed(m)
          \/ \E m \in Meshes : ExitLooked(m, "throws")
          \/ \E p \in Pids : WReady(p)
          \/ \E p \in Pids : WCrash(p)]_vars

\* one mesh that leaves the directory for good: every fetch returns the whole
\* directory, the workers crash or obey shutdown
SpecDelist ==
    /\ InitRestarts
    /\ [][\/ Start
          \/ \E s \in Slots : StartInvitesDone(s, TRUE)
          \/ \E s \in Slots : StartLoaded(s, TRUE)
          \/ DiscoveryTick
          \/ \E s \in Slots, list \in {l \in Lists : Range(l) = directory
                                              /\ Len(l) = Cardinality(directory)} :
                Fetched(s, list, TRUE)
          \/ \E s \in Slots : Looked(s, "server")
          \/ \E s \in Slots : Graced(s)
          \/ \E p \in Pids : HandleExit(p)
          \/ \E m \in Meshes : ExitDelayed(m)
          \/ \E m \in Meshes : ExitLooked(m, "server")
          \/ \E p \in Pids : WCrash(p)
          \/ \E p \in Pids : WShutdown(p)
          \/ \E m \in Meshes : Delist(m)]_vars
\* one mesh whose workers crash or obey shutdown, under a supervisor that is
\* started and stopped
NextStop ==
    \/ Discovery
    \/ ExitHandlers
    \/ Stop
    \/ \E c \in stopWaits : StopGraced(c)
    \/ \E p \in Pids : WCrash(p)
    \/ \E p \in Pids : WShutdown(p)
SpecStop == InitRestarts /\ [][NextStop]_vars

\* the health monitor: one listed mesh, its worker polled, found unhealthy,
\* killed and restarted
NextHealth ==
    \/ Start
    \/ \E s \in Slots : StartInvitesDone(s, TRUE)
    \/ \E s \in Slots : StartLoaded(s, TRUE)
    \/ \E s \in Slots, list \in Lists : Fetched(s, list, TRUE)
    \/ \E s \in Slots, r \in LookupResults : Looked(s, r)
    \/ \E p \in Pids : HandleMessage(p)
    \/ \E p \in Pids : HandleExit(p)
    \/ \E m \in Meshes : ExitDelayed(m)
    \/ \E m \in Meshes : ExitLooked(m, "server")
    \/ Tick
    \/ performHealthCheck
    \/ \E p \in Pids : WStatus(p)
    \/ \E p \in Pids : WReady(p)
    \/ \E p \in Pids : WConnected(p)
    \/ \E p \in Pids : WLeave(p)
    \/ \E p \in Pids : WLeft(p)
\* Node.js emits 'exit' for a child that has exited and runs the timers that
\* are due (the restart delay, the exit timer of a worker that has left);
\* the directory answers the lookup of a mesh it lists
SpecHealth ==
    /\ InitRestarts /\ [][NextHealth]_vars
    /\ \A p \in Pids : WF_vars(HandleExit(p)) /\ WF_vars(WLeft(p))
    /\ \A m \in Meshes : WF_vars(ExitDelayed(m)) /\ WF_vars(ExitLooked(m, "server"))

\* one listed mesh whose worker is told to leave, under the health monitor:
\* the worker's run loop may end before the leave command's exit timer fires
SpecLeave ==
    /\ InitRestarts
    /\ [][NextHealth \/ \E p \in Pids : WLost(p)]_vars
\* the counters of a record: one listed mesh under either configured
\* maxConnectionAttempts, its workers failing to connect, losing the
\* connection, leaving, answering status requests and being evicted
InitCounters ==
    /\ InitBlocklist
    /\ InitManager
    /\ InitClient
    /\ dirWritable = FALSE
    /\ maxConnectionAttempts \in ConfigMaxConnectionAttempts
    /\ directory = {1}
SpecCounters ==
    /\ InitCounters
    /\ [][\/ NextHealth
          \/ \E p \in Pids : WLost(p)
          \/ \E p \in Pids : WConnectFailed(p)]_vars
\* one listed mesh whose connected worker loses the connection or is
\* disconnected by the server
SpecServerClosed ==
    /\ InitRestarts
    /\ [][\/ Start
          \/ \E s \in Slots : StartInvitesDone(s, TRUE)
          \/ \E s \in Slots : StartLoaded(s, TRUE)
          \/ \E s \in Slots, list \in Lists : Fetched(s, list, TRUE)
          \/ \E s \in Slots, r \in LookupResults : Looked(s, r)
          \/ \E p \in Pids : HandleMessage(p)
          \/ \E p \in Pids : HandleExit(p)
          \/ \E m \in Meshes : ExitDelayed(m)
          \/ \E m \in Meshes : ExitLooked(m, "server")
          \/ \E p \in Pids : WReady(p)
          \/ \E p \in Pids : WConnected(p)
          \/ \E p \in Pids : WLost(p)
          \/ \E p \in Pids : WServerDisconnected(p)]_vars
\* spawnProcess: the whole directory stays listed beside a blocklist file an
\* earlier run left; endpoint lookups succeed, find nothing or throw, and
\* workers crash
InitSpawn ==
    /\ InitManager
    /\ InitClient
    /\ dirWritable = FALSE
    /\ maxConnectionAttempts = 3
    /\ directory = Meshes
    /\ now = 0
    /\ blockedMeshes = EmptyMap
    /\ file \in FilesLeft
    /\ savePending = 0
    /\ saveWriting = {}
    /\ did = {}
    /\ everKicked = {}
    /\ ttl = [m \in Meshes |-> Null]
    /\ expiredSeen = {}
    /\ ioFailed = FALSE
SpecSpawn ==
    /\ InitSpawn
    /\ [][\/ Start
          \/ \E s \in Slots : StartInvitesDone(s, TRUE)
          \/ \E s \in Slots : StartLoaded(s, TRUE)
          \/ DiscoveryTick
          \/ \E s \in Slots : Fetched(s, <<1, 2>>, TRUE)
          \/ \E s \in Slots : Waited(s)
          \/ \E s \in Slots, r \in LookupResults : Looked(s, r)
          \/ \E p \in Pids : HandleExit(p)
          \/ \E m \in Meshes : ExitDelayed(m)
          \/ \E m \in Meshes, r \in LookupResults : ExitLooked(m, r)
          \/ \E p \in Pids : WCrash(p)]_vars

\* the IPC channel: two listed meshes with a worker each, what their
\* channels deliver, and commands broadcast to them
NextIPC ==
    \/ Start
    \/ \E s \in Slots : StartInvitesDone(s, TRUE)
    \/ \E s \in Slots : StartLoaded(s, TRUE)
    \/ \E s \in Slots, list \in Lists : Fetched(s, list, TRUE)
    \/ \E s \in Slots : Waited(s)
    \/ \E s \in Slots : Looked(s, "server")
    \/ \E p \in Pids : HandleMessage(p)
    \/ \E p \in Pids, data \in RawMessages : WRaw(p, data)
    \/ \E command \in {"shutdown", "refresh_permissions"}, throws \in SUBSET Pids : broadcastCommand(command, throws)
SpecIPC == InitSync /\ [][NextIPC]_vars

\* the websocket client of one worker, alone.  Node.js runs the timers that
\* are due: an armed timeout that is not cleared runs its callback.
SpecClient ==
    /\ InitAlone /\ [][ClientNext]_vars
    /\ \A c \in 1..MaxCalls : WF_vars(ClientStep(RequestTimeout(c)))

\* stopProcess, called by syncMeshes for a mesh that the list no longer holds
\* and by stop() for every record, on workers that crash or obey shutdown,
\* with a kill() that may throw.  The 2 s timer of a grace period runs out.
StopCallRecords == [mesh : Meshes, child : Pids]
SpecStopProcess ==
    /\ InitRestarts
    /\ [][\/ Start
          \/ \E s \in Slots : StartInvitesDone(s, TRUE)
          \/ \E s \in Slots : StartLoaded(s, TRUE)
          \/ DiscoveryTick
          \/ \E s \in Slots, list \in {<<1>>, <<>>} : Fetched(s, list, TRUE)
          \/ \E s \in Slots : Looked(s, "server")
          \/ \E s \in Slots : Graced(s)
          \/ \E s \in Slots : GracedThrows(s)
          \/ Stop
          \/ \E c \in stopWaits : StopGraced(c)
          \/ \E p \in Pids : HandleExit(p)
          \/ \E m \in Meshes : ExitDelayed(m)
          \/ \E m \in Meshes : ExitLooked(m, "server")
          \/ \E p \in Pids : WCrash(p)
          \/ \E p \in Pids : WShutdown(p)]_vars
    /\ \A s \in Slots : WF_vars(Graced(s) \/ GracedThrows(s))
    /\ \A c \in StopCallRecords : WF_vars(StopGraced(c))
\* a quiet environment: the directory loses meshes finitely often and every
\* fetch returns it whole, no mesh is blocked, every endpoint lookup returns
\* a server, and no worker exits unless the supervisor has sent it shutdown
\* or killed it.  The event loop runs what is due: timers fire, awaited calls
\* return, 'exit' events are handled, a worker obeys a shutdown command.
NextConverge ==
    \/ Start
    \/ \E s \in Slots : StartInvitesDone(s, TRUE)
    \/ \E s \in Slots : StartLoaded(s, TRUE)
    \/ DiscoveryTick
    \/ \E s \in Slots, list \in {l \in Lists : Range(l) = directory
                                        /\ Len(l) = Cardinality(directory)} :
          Fetched(s, list, TRUE)
    \/ \E s \in Slots : Waited(s)
    \/ \E s \in Slots : Looked(s, "server")
    \/ \E s \in Slots : Graced(s)
    \/ \E p \in Pids : HandleExit(p)
    \/ \E m \in Meshes : ExitDelayed(m)
    \/ \E m \in Meshes : ExitLooked(m, "server")
    \/ \E p \in Pids : WShutdown(p)
    \/ \E m \in Meshes : Delist(m)
SpecConverge ==
    /\ InitSync
    /\ [][NextConverge]_vars
    /\ WF_vars(Start) /\ WF_vars(DiscoveryTick)
    /\ \A s \in Slots :
          /\ WF_vars(StartInvitesDone(s, TRUE)) /\ WF_vars(StartLoaded(s, TRUE))
          /\ WF_vars(\E list \in Lists : Range(list) = directory /\ Fetched(s, list, TRUE))
          /\ WF_vars(Waited(s)) /\ WF_vars(Looked(s, "server")) /\ WF_vars(Graced(s))
    /\ \A p \in Pids : WF_vars(HandleExit(p)) /\ WF_vars(WShutdown(p))
    /\ \A m \in Meshes : WF_vars(ExitDelayed(m)) /\ WF_vars(ExitLooked(m, "server"))
\* the session of one client: connect, remote closes, disconnect() and the
\* socket events after it, requests and the keepalive, while the clock runs
SpecSession ==
    /\ InitAlone
    /\ [][\/ ClientNext
          \/ \E event \in {"error", "close"} : ClientStep(OnLateEvent(event))
          \/ Tick]_vars

\* -------------------------------------------------------------- properties
Live(m) == {p \in DOMAIN workers : workers[p].mesh = m /\ workers[p].alive}
\* every message and exit of the workers of mesh m has been handled
Settled(m) ==
    \A p \in DOMAIN workers :
        workers[p].mesh = m => (workers[p].outbox = <<>> /\ ~workers[p].exitPending)
InFile(m) == \E e \in file.data : e.meshId = m
\* the step forks a worker for mesh m
Forked(m) == \E p \in (DOMAIN workers') \ (DOMAIN workers) : workers'[p].mesh = m
\* the step forks no worker
NoFork == (DOMAIN workers') \subseteq (DOMAIN workers)
\* the step stops no worker: no shutdown sent, no child killed, no record deleted
NoStop ==
    /\ \A p \in (DOMAIN workers) \cap (DOMAIN workers') :
          /\ workers'[p].shutdown = workers[p].shutdown
          /\ workers'[p].killed = workers[p].killed
    /\ Range(Keys(processes)) \subseteq Range(Keys(processes'))
\* the step is the 'message' handler of child p, run on an event of this type
\* with the record of its mesh present
Handles(p, type) ==
    /\ HandleMessage(p)
    /\ Head(workers[p].outbox).payload.type = type
    /\ Has(processes, workers[p].mesh)

\* C1: at any moment at most one live worker process exists per mesh, however
\* the calls of spawnProcess (discovery ticks, respawns by handleProcessExit)
\* interleave.
C1_OneWorkerPerMesh == \A m \in Meshes : Cardinality(Live(m)) <= 1

\* C2: a mesh whose worker exits abnormally each time, and that was never
\* kicked, blocked, stopped, disconnected by the server or shut down, is
\* respawned by handleProcessExit at most maxProcessRestarts times in total.
C2_RestartBudget ==
    \A m \in Meshes \ excused : respawns[m] <= maxProcessRestarts

\* a kicked message handled on the record of its mesh writes a permanent entry
C3_KickedEntryPermanent ==
    \A p \in Pids :
        Handles(p, "kicked") =>
            /\ workers[p].mesh \in DOMAIN blockedMeshes'
            /\ blockedMeshes'[workers[p].mesh].reason = "kicked"
            /\ blockedMeshes'[workers[p].mesh].blockedUntil = Null
\* the 'exit' handler of a worker of a mesh whose worker has emitted kicked
\* leaves no record of the mesh
C3_KickedRecordRemoved ==
    \A p \in Pids :
        (HandleExit(p) /\ workers[p].mesh \in kickedEmitted) =>
            ~Has(processes', workers[p].mesh)
\* no worker is forked for a mesh whose worker has emitted kicked
C3_KickedNeverSpawned == \A m \in kickedEmitted : ~Forked(m)

\* C3: after a worker emits kicked, the mesh has a permanent blocklist entry,
\* its record is removed when the worker exits, and no worker is spawned for it
\* again, by restart or by discovery, in whichever order the kicked message and
\* the exit are handled.
C3_KickedIsFinal ==
    [][C3_KickedEntryPermanent /\ C3_KickedRecordRemoved /\ C3_KickedNeverSpawned]_vars

\* C4: once a mesh has a kicked entry, every later isBlocked check of it
\* returns true (explicit unblock and clearAll aside), whatever time has passed
\* and whatever later block calls and sweeps occurred.
C4_KickedBlockedForever ==
    \A e \in did : (e.op = "isBlocked" /\ e.mesh \in everKicked) => e.result

\* the blocklist holds the entry block(m, 'connection_failures') writes now
BlockedNow(m) ==
    /\ m \in DOMAIN blockedMeshes
    /\ blockedMeshes[m] = NewBlockedMesh(m, "connection_failures", NoDuration, now)

\* C5: every connection_failed event raises connectionAttempts by one; at maxConnectionAttempts or above the state is BLOCKED and a temporary
\* connection_failures entry expiring blocklistDuration later is written,
\* below it the state is not BLOCKED and no entry is written.
C5_AttemptsCountUp ==
    [][\A p \in Pids :
        Handles(p, "connection_failed") =>
            LET m == workers[p].mesh
            IN /\ Has(processes', m)
               /\ Get(processes', m).connectionAttempts =
                      Get(processes, m).connectionAttempts + 1
               /\ IF Get(processes', m).connectionAttempts >= maxConnectionAttempts
                  THEN Get(processes', m).state = "blocked" /\ BlockedNow(m)'
                  ELSE Get(processes', m).state # "blocked"
                           /\ blockedMeshes' = blockedMeshes]_vars

\* C6: with the default maxConnectionAttempts of 3, a mesh that has failed to
\* connect on three consecutive attempts, counted across restarted worker
\* processes, has been blocked for connection_failures once the events of its
\* workers are handled.
C6_ThreeFailuresBlock ==
    \A m \in Meshes :
        (maxConnectionAttempts = 3 /\ streak[m] >= 3 /\ Settled(m)) =>
            ttl[m] # Null

\* the checks of a connection_failures block follow its expiry time
C7_ChecksFollowTtl ==
    \A e \in did :
        (e.op = "isBlocked" /\ ttl[e.mesh] # Null) =>
            /\ (now < ttl[e.mesh]) => e.result
            /\ (now > ttl[e.mesh]) => ~e.result

\* once a check has seen the block expired, and every save has run to its end
\* without an I/O failure, the entry is in neither the map nor the file
C7_ExpiredEntryGone ==
    \A m \in Meshes :
        (m \in expiredSeen /\ SavesInFlight = 0 /\ ~ioFailed) =>
            (m \notin DOMAIN blockedMeshes /\ ~InFile(m))

\* C7: a connection_failures block created at T with duration D is reported
\* blocked by every check before T+D and not blocked by every check after T+D,
\* and after the first such false check the entry is gone from the in-memory
\* set and from the persisted file.
C7_TtlSelfExpiry == C7_ChecksFollowTtl /\ C7_ExpiredEntryGone

\* the step belongs to a run of syncMeshes that repeats the run before it
\* (at least to degree k: 1 same list and nothing in between, 2 moreover the
\* run before ended with a record for exactly the listed meshes)
RepeatStep(k) ==
    \E s \in Slots :
        \/ \E list \in Lists, ok \in BOOLEAN :
              /\ Fetched(s, list, ok)
              /\ Again(s, IF ok THEN Range(list) ELSE {}) >= k
        \/ /\ runners[s].again >= k
           /\ Waited(s) \/ Graced(s) \/ \E r \in LookupResults : Looked(s, r)

\* C8 as stated: a run of syncMeshes with the list of the run before it, with
\* no handler run and no time passed in between, forks no worker and stops none.
C8_SecondRunIdle == [][RepeatStep(1) => (NoFork /\ NoStop)]_vars

\* C8 amended: a run of syncMeshes with the list of the run before it, which
\* ended with a record for exactly the listed meshes, with no handler run and
\* no time passed in between, forks no worker and stops none.
C8_SecondRunIdleAfterExact == [][RepeatStep(2) => (NoFork /\ NoStop)]_vars

\* such a second run has ended, over a registry with a record for every mesh
C8_Witness ==
    /\ synced.valid
    /\ synced.again = 2
    /\ Len(processes) = NumMeshes

\* C9: a discovery tick whose directory fetch fails changes nothing: no worker
\* is stopped or spawned, no registry or blocklist entry changes.
C9_FailedFetchChangesNothing ==
    [][\A s \in Slots, list \in Lists :
        (runners[s].kind = "tick" /\ Fetched(s, list, FALSE)) =>
            /\ processes' = processes
            /\ workers' = workers
            /\ blockedMeshes' = blockedMeshes]_vars

\* C10: the number of live workers, and of registry records, never exceeds the
\* configured maxProcesses.
C10_AtMostMaxProcesses ==
    /\ Len(processes) <= maxProcesses
    /\ Cardinality({p \in DOMAIN workers : workers[p].alive}) <= maxProcesses

\* stop() has returned: every stopProcess call it made has settled, and
\* start() has not been called since
StopReturned == ~isRunning /\ shutdownRequested /\ stopWaits = {}

\* C11: once stop() has returned the registry is empty, no worker is alive,
\* and no step forks a worker, whether a restart delay, a discovery tick or a
\* spawnProcess call was in flight when stop() was called.
C11_StopIsFinal ==
    [][/\ StopReturned => NoFork
       /\ StopReturned' =>
             /\ processes' = <<>>
             /\ \A p \in DOMAIN workers' : ~workers'[p].alive]_vars

\* the file holds exactly the entries of the map
FileIsMap == file.status # "torn" /\ file.data = ToJSON(blockedMeshes)
\* C12: the file is never seen partially written, and once no save is in
\* flight (none having failed on I/O) it holds exactly the in-memory entry set,
\* also when several saves overlapped.
C12_SavesAtomic ==
    /\ file.status # "torn"
    /\ (SavesInFlight = 0 /\ ~ioFailed) => FileIsMap

Pending(c) == c \in DOMAIN calls /\ calls[c].state = "pending"
\* C13: every sendRequest call is eventually resolved, with the response
\* or with null, however many requests are outstanding.
C13_EveryRequestResolves ==
    \A c \in 1..MaxCalls : Pending(c) ~> ~Pending(c)

\* C14: once disconnect() has started nothing is written to the socket:
\* disconnect() marks the session not connected and terminated and drops the
\* socket in one run, and afterwards no step writes a request, a
\* notification or a ping, and every sendRequest made returns null.
C14_SilentAfterDisconnect ==
    [][/\ ClientStep(disconnect) =>
             ~isConnected' /\ isTerminated' /\ websocket' = "null" /\ wrote' = "none"
       /\ isTerminated =>
             /\ isTerminated'
             /\ wrote' = "none"
             /\ \A c \in DOMAIN calls' : calls'[c].late => calls'[c].state = "null"]_vars
\* a request made after disconnect(), and a ping interval still ticking
C14_Witness ==
    /\ isTerminated /\ intervals > 0
    /\ \E c \in DOMAIN calls : calls[c].late

LiveWorker(p) == p \in DOMAIN workers /\ workers[p].alive
Unhealthy(m) == Has(processes, m) /\ Get(processes, m).state = "unhealthy"
Replaced(m) == Has(processes, m) /\ LiveWorker(Get(processes, m).process)
\* C15: a worker whose heartbeat a health check found older than the
\* threshold is eventually terminated, and a mesh marked unhealthy that is
\* not kicked, blocked or stopped and has restart budget left eventually
\* has a new worker.
C15_UnhealthyIsRestarted ==
    /\ \A p \in Pids : (LiveWorker(p) /\ workers[p].overdue) ~> ~LiveWorker(p)
    /\ \A m \in Meshes :
          (/\ Unhealthy(m) /\ m \notin excused /\ ~shutdownRequested
           /\ Get(processes, m).retryCount < maxProcessRestarts) ~> Replaced(m)

\* C16: a broadcast reaches the child of every record whose child is not
\* killed and on which send does not throw, whichever sends throw, and
\* leaves the registry as it was.
C16_BroadcastReachesTheOthers ==
    [][\A command \in {"shutdown", "refresh_permissions"}, throws \in SUBSET Pids :
          broadcastCommand(command, throws) =>
             /\ processes' = processes
             /\ \A i \in DOMAIN processes :
                   LET p == processes[i].process IN
                   (/\ command = "shutdown" /\ LiveWorker(p)
                    /\ ~workers[p].killed /\ p \notin throws) =>
                       workers'[p].shutdown]_vars
\* two records: the shutdown command has reached the second child and not
\* the first, on which send threw
C16_Witness ==
    /\ Len(processes) = 2
    /\ LiveWorker(processes[1].process) /\ ~workers[processes[1].process].shutdown
    /\ LiveWorker(processes[2].process) /\ workers[processes[2].process].shutdown

\* the 'message' handler of child p returned at once: the message is taken
\* off the channel and nothing else changes
Dropped(p) ==
    /\ processes' = processes
    /\ workers' = [workers EXCEPT ![p].outbox = Tail(@)]
    /\ blockedMeshes' = blockedMeshes /\ file' = file
    /\ savePending' = savePending /\ saveWriting' = saveWriting
Malformed(data) == data.js # "object" \/ data.type = "undefined" \/ data.timestamp = Null
Falsy(data) == data.js # "object" \/ data.type \in {"undefined", ""} \/ data.timestamp \in {Null, 0}
\* C17 as stated: what is not an object, is null or lacks type or timestamp
\* parses to null, an object that carries both is returned unchanged, and on
\* null the handler changes no state.
C17_CarriesBothIsReturned ==
    [][\A p \in Pids : HandleMessage(p) =>
          LET data == Head(workers[p].outbox) IN
          /\ Malformed(data) => parseIPCMessage(data) = [js |-> "null"]
          /\ ~Malformed(data) => parseIPCMessage(data) = data
          /\ parseIPCMessage(data) = [js |-> "null"] => Dropped(p)]_vars
\* C17, amended: what is not an object, is null, or whose type or timestamp
\* is absent or falsy (an empty type, a timestamp of 0) parses to null; an
\* object whose type and timestamp are both truthy is returned unchanged;
\* on null the handler changes no state.
C17_TruthyBothIsReturned ==
    [][\A p \in Pids : HandleMessage(p) =>
          LET data == Head(workers[p].outbox) IN
          /\ Falsy(data) => parseIPCMessage(data) = [js |-> "null"]
          /\ ~Falsy(data) => parseIPCMessage(data) = data
          /\ parseIPCMessage(data) = [js |-> "null"] => Dropped(p)]_vars
\* one channel is about to deliver an object with an empty type, the other
\* an object with a type and a timestamp, after a message has been handled
C17_Witness ==
    \E p, q \in DOMAIN workers :
        /\ workers[p].outbox # <<>> /\ workers[q].outbox # <<>>
        /\ Head(workers[p].outbox).js = "object" /\ Head(workers[p].outbox).type = ""
        /\ ~Falsy(Head(workers[q].outbox))
        /\ Len(workers[q].outbox) = 1

\* the record is one that handleProcessExit does not restart
Quits(info) ==
    info.state \in {"stopped", "blocked"} \/ info.serverDisconnected \/ info.kicked
Unhandled(p, type) ==
    {i \in DOMAIN workers[p].outbox :
        /\ workers[p].outbox[i].js = "object" /\ workers[p].outbox[i].type = "event"
        /\ workers[p].outbox[i].payload.type = type}
\* C19: a worker sends ready before any connected, and the parent handles
\* no connected of a child before it has handled the ready of that child.
C19_ReadyBeforeConnected ==
    [][\A p \in Pids :
          /\ p \in DOMAIN workers =>
                \A i \in Unhandled(p, "connected") :
                    \/ workers[p].readyHandled
                    \/ \E j \in Unhandled(p, "ready") : j < i
          /\ (HandleMessage(p) /\ 1 \in Unhandled(p, "connected")) =>
                workers[p].readyHandled]_vars
\* the restarted mesh: its second worker's ready, then its connected, have
\* been handled
C19_Witness ==
    \E i \in DOMAIN processes :
        /\ processes[i].state = "connected"
        /\ processes[i].process \in DOMAIN workers
        /\ workers[processes[i].process].readyHandled
        /\ workers[processes[i].process].phase = "connected"
        /\ workers[processes[i].process].outbox = <<>>
        /\ processes[i].process # 1

C21_FailedSaveKeepsBlock ==
    [][/\ (~dirWritable /\ blockedMeshes' # blockedMeshes) =>
              /\ ioFailed'
              /\ isRunning' = isRunning
              /\ shutdownRequested' = shutdownRequested
       /\ \A e \in did' :
              (e.op = "isBlocked" /\ e.mesh \in everKicked /\ ioFailed) =>
                  /\ e.result
                  /\ e.mesh \in DOMAIN blockedMeshes'
                  /\ spawnLookup'[e.mesh] <= spawnLookup[e.mesh]
                  /\ \A s \in Slots :
                        (runners'[s].pc = "lookup" /\ runners[s].pc # "lookup") =>
                            Head(runners'[s].new) # e.mesh
                  /\ ~Forked(e.mesh)]_vars
\* the save of a kicked block has failed, and a later spawnProcess call for
\* the mesh was refused
C21_Witness ==
    \E e \in did :
        /\ e.op = "isBlocked" /\ e.result
        /\ e.mesh \in everKicked
        /\ ioFailed /\ ~dirWritable
        /\ file = NoFile
        /\ isRunning
        /\ ~Has(processes, e.mesh)

\* blocklist.load() of the start() call in slot s fails on a file that is
\* there: the read is refused, or the content does not parse
LoadFails(s) ==
    \/ StartLoaded(s, TRUE) /\ file.status = "torn"
    \/ StartLoaded(s, FALSE) /\ file.status # "missing" /\ ~StartLoaded(s, TRUE)
\* C22: load() takes a missing file for a fresh start, surfaces every other
\* read or parse error to its caller (start() does not go on), and after a
\* successful load the map holds exactly the unexpired entries of the file.
C22_LoadSurfacesErrors ==
    [][\A s \in Slots :
          /\ (StartLoaded(s, TRUE) /\ file.status = "missing") =>
                 /\ blockedMeshes' = EmptyMap
                 /\ runners'[s].pc = "fetch"
          /\ LoadFails(s) => runners'[s] = Idle
          /\ (StartLoaded(s, TRUE) /\ file.status = "ok") =>
                 /\ runners'[s].pc = "fetch"
                 /\ blockedMeshes' =
                       [m \in {e.meshId : e \in {x \in file.data :
                                  x.blockedUntil = Null \/ ~(now > x.blockedUntil)}} |->
                           CHOOSE e \in file.data : e.meshId = m]]_vars

\* child p is not the child the registry holds for its mesh: it was replaced,
\* or its record was removed
Stale(p) ==
    /\ p \in DOMAIN workers
    /\ \/ ~Has(processes, workers[p].mesh)
       \/ Get(processes, workers[p].mesh).process # p
\* C23: a message or an exit of a worker that has been replaced or removed
\* from the registry changes no record, and starts no exit handling (no
\* restart delay, no respawn) for the mesh's current worker.
C23_StaleEventsIgnored ==
    [][\A p \in Pids :
          (Stale(p) /\ (HandleMessage(p) \/ HandleExit(p))) =>
              /\ processes' = processes
              /\ exitDelay' = exitDelay
              /\ spawnLookup' = spawnLookup
              /\ NoFork]_vars

\* C24: once reconciliation has stopped the worker of a mesh that left the
\* directory (shutdown was sent, or the record deleted), exit handling forks
\* no worker for that mesh, whether the worker exits during the grace wait or
\* after the kill or had exited before the stop.
C24_StoppedIsNotReplaced ==
    [][\A m \in Meshes :
          (ExitLooked(m, "server") /\ m \in excused /\ m \notin directory) =>
              NoFork]_vars

\* C25: once the intentional_leave of a worker has been handled, the exit of
\* that worker removes the record, schedules no restart and forks nothing,
\* whatever else the worker sent before or after the leave event.
C25_LeaveIsFinal ==
    [][\A p \in Pids :
          (HandleExit(p) /\ workers[p].leaveHandled) =>
              /\ ~Has(processes', workers[p].mesh)
              /\ exitDelay' = exitDelay
              /\ NoFork]_vars

\* C26: the handler of a disconnected event sets the record's state to
\* DISCONNECTED, unless the reason names a server-initiated close: then it
\* sets STOPPED and serverDisconnected, and the exit of that worker, handled
\* later, removes the record, schedules no restart and forks nothing.
C26_ServerCloseIsFinal ==
    [][\A p \in Pids :
          /\ Handles(p, "disconnected") =>
                LET m == workers[p].mesh
                    reason == Head(workers[p].outbox).payload.reason
                IN /\ Has(processes', m)
                   /\ IF reason = "Server disconnected"
                      THEN /\ Get(processes', m).state = "stopped"
                           /\ Get(processes', m).serverDisconnected
                      ELSE /\ Get(processes', m).state = "disconnected"
                           /\ Get(processes', m).serverDisconnected =
                                  Get(processes, m).serverDisconnected
          /\ (HandleExit(p) /\ workers[p].closeHandled) =>
                /\ ~Has(processes', workers[p].mesh)
                /\ exitDelay' = exitDelay
                /\ NoFork]_vars
\* the worker of a mesh was disconnected by the server; its event and then
\* its exit have been handled, and nothing of the mesh is left or pending
C26_Witness ==
    \E m \in excused :
        /\ ~Has(processes, m) /\ Settled(m) /\ Live(m) = {}
        /\ exitDelay[m] = 0 /\ spawnLookup[m] = 0
        /\ respawns[m] = 0

\* C27: a spawnProcess call for a mesh that is in the registry or blocked
\* begins no endpoint lookup, forks nothing and leaves the registry as it
\* is; a lookup that finds no endpoint or throws forks nothing and leaves the
\* registry as it is; a lookup that finds one forks exactly one child and
\* sets exactly the record of that mesh, in state spawning with
\* connectionAttempts 0 and retryCount 0
C27_SpawnProcess ==
    [][LET Refused(m) == Has(processes, m) \/ isBlocked(blockedMeshes, m, now)
           Inserted(m) ==
               /\ \E p \in Pids \ DOMAIN workers :
                     /\ (DOMAIN workers') \ (DOMAIN workers) = {p}
                     /\ workers'[p].mesh = m
                     /\ Has(processes', m)
                     /\ Get(processes', m).process = p
               /\ Get(processes', m).state = "spawning"
               /\ Get(processes', m).connectionAttempts = 0
               /\ Get(processes', m).retryCount = 0
               /\ \A n \in Meshes \ {m} :
                     /\ Has(processes', n) = Has(processes, n)
                     /\ Has(processes, n) => Get(processes', n) = Get(processes, n)
       IN /\ \A s \in Slots :
               (Waited(s) /\ Refused(Head(runners[s].new))) =>
                   /\ NoFork
                   /\ processes' = processes
                   /\ runners'[s].pc # "lookup"
          /\ \A s \in Slots :
               (/\ Fetched(s, <<1, 2>>, TRUE)
                /\ newMeshIds(processes, <<1, 2>>) # <<>>
                /\ Refused(Head(newMeshIds(processes, <<1, 2>>)))) =>
                   /\ NoFork
                   /\ processes' = processes
                   /\ runners'[s].pc # "lookup"
          /\ \A m \in Meshes :
               (ExitDelayed(m) /\ isBlocked(blockedMeshes, m, now)) =>
                   /\ NoFork
                   /\ processes' = Delete(processes, m)
                   /\ spawnLookup' = spawnLookup
          /\ \A s \in Slots, r \in {"none", "throws"} :
               Looked(s, r) => (NoFork /\ processes' = processes)
          /\ \A m \in Meshes, r \in {"none", "throws"} :
               ExitLooked(m, r) => (NoFork /\ processes' = processes)
          /\ \A s \in Slots :
               Looked(s, "server") => Inserted(Head(runners[s].new))
          /\ \A m \in Meshes :
               ExitLooked(m, "server") => Inserted(m)]_vars
\* a blocked mesh without a worker or a record, beside a mesh whose
\* spawnProcess has inserted its record and forked its child
C27_Witness ==
    \E m, n \in Meshes :
        /\ m # n
        /\ isBlocked(blockedMeshes, n, now)
        /\ ~Has(processes, n)
        /\ \A p \in DOMAIN workers : workers[p].mesh # n
        /\ Has(processes, m)
        /\ Get(processes, m).state = "spawning"
        /\ Get(processes, m).connectionAttempts = 0
        /\ Get(processes, m).retryCount = 0
        /\ Get(processes, m).process \in Live(m)

\* C28: in one health-check tick a record that is not STOPPED or BLOCKED and
\* whose child has not been killed is sent a status_request; a record becomes
\* UNHEALTHY and its child is killed exactly when it is not STOPPED or
\* BLOCKED, its heartbeat is older than the threshold and it is not UNHEALTHY
\* already; every other record, and its child, is left as it was, and a
\* STOPPED or BLOCKED record or one whose child was killed is not polled
C28_HealthCheckTick ==
    [][performHealthCheck =>
          \A m \in Meshes :
              Has(processes, m) =>
                  LET info == Get(processes, m)
                      p == info.process
                      skipped == info.state \in {"stopped", "blocked"}
                      stale == now - info.lastHeartbeat > unhealthyThreshold
                      marked == ~skipped /\ stale /\ info.state # "unhealthy"
                  IN /\ Has(processes', m)
                     /\ Get(processes', m) =
                            IF marked THEN [info EXCEPT !.state = "unhealthy"] ELSE info
                     /\ marked =>
                            /\ ~workers'[p].alive
                            /\ workers[p].alive => workers'[p].killed
                     /\ ~marked =>
                            /\ workers'[p].alive = workers[p].alive
                            /\ workers'[p].killed = workers[p].killed
                     /\ (~skipped /\ ~marked /\ workers[p].alive /\ ~workers[p].killed) =>
                            workers'[p].asked
                     /\ (skipped \/ workers[p].killed) =>
                            workers'[p].asked = workers[p].asked]_vars
\* a record marked UNHEALTHY by a tick that found its heartbeat overdue, its
\* child killed by the eviction and the exit not handled yet
C28_Witness ==
    \E m \in Meshes :
        /\ Has(processes, m)
        /\ Get(processes, m).state = "unhealthy"
        /\ now - Get(processes, m).lastHeartbeat > unhealthyThreshold
        /\ workers[Get(processes, m).process].killed
        /\ workers[Get(processes, m).process].overdue
        /\ workers[Get(processes, m).process].exitPending
\* C28 as stated: in one health-check tick every record that is not STOPPED
\* or BLOCKED is sent a status_request
C28_EveryRecordPolled ==
    [][performHealthCheck =>
          \A m \in Meshes :
              (Has(processes, m) /\ Get(processes, m).state \notin {"stopped", "blocked"}) =>
                  LET p == Get(processes, m).process
                  IN /\ ~workers[p].killed
                     /\ (workers[p].alive /\ workers'[p].alive) => workers'[p].asked]_vars

\* C29: the 'message' handler run on a status_response of a mesh that is in
\* the registry sets the record's lastHeartbeat to now, its state to
\* CONNECTED when the status says connected, to DISCONNECTED when it says
\* not connected and the state was CONNECTED, and to what it was otherwise,
\* copies the reported retryCount and connectionAttempts, and touches no
\* other record; for a mesh that is not in the registry nothing changes
C29_StatusResponse ==
    [][\A p \in Pids :
          (/\ HandleMessage(p)
           /\ parseIPCMessage(Head(workers[p].outbox)).js # "null"
           /\ parseIPCMessage(Head(workers[p].outbox)).type = "status_response") =>
              LET m == workers[p].mesh
                  status == Head(workers[p].outbox).payload
                  info == Get(processes, m)
              IN /\ blockedMeshes' = blockedMeshes
                 /\ NoFork
                 /\ IF Has(processes, m)
                    THEN /\ Keys(processes') = Keys(processes)
                         /\ \A n \in Meshes \ {m} :
                                Has(processes, n) => Get(processes', n) = Get(processes, n)
                         /\ Get(processes', m).lastHeartbeat = now
                         /\ Get(processes', m).state =
                                IF status.connected THEN "connected"
                                ELSE IF info.state = "connected" THEN "disconnected"
                                ELSE info.state
                         /\ Get(processes', m).retryCount = status.retryCount
                         /\ Get(processes', m).connectionAttempts = status.connectionAttempts
                         /\ Get(processes', m).process = info.process
                         /\ Get(processes', m).kicked = info.kicked
                         /\ Get(processes', m).serverDisconnected = info.serverDisconnected
                    ELSE processes' = processes]_vars
\* the status of a worker that is still connecting has been handled: its
\* record stays READY and holds the attempt the worker counted
C29_Witness ==
    \E m \in Meshes :
        /\ Has(processes, m)
        /\ Get(processes, m).state = "ready"
        /\ Get(processes, m).connectionAttempts = 1
        /\ Get(processes, m).retryCount = 0
        /\ Get(processes, m).lastHeartbeat = now
        /\ workers[Get(processes, m).process].phase = "ready"
        /\ ~workers[Get(processes, m).process].asked
        /\ workers[Get(processes, m).process].outbox = <<>>

\* C30: every record of the registry has, at every time, connectionAttempts
\* between 0 and maxConnectionAttempts and retryCount between 0 and
\* maxProcessRestarts
C30_CountersInRange ==
    \A i \in DOMAIN processes :
        /\ 0 <= processes[i].connectionAttempts
        /\ processes[i].connectionAttempts <= maxConnectionAttempts
        /\ 0 <= processes[i].retryCount
        /\ processes[i].retryCount <= maxProcessRestarts
\* a connection_failed event has brought a record to maxConnectionAttempts
\* and to BLOCKED
C30_Witness ==
    \E i \in DOMAIN processes :
        /\ processes[i].state = "blocked"
        /\ processes[i].connectionAttempts = maxConnectionAttempts
        /\ processes[i].meshId \in DOMAIN blockedMeshes

\* C31: block(id, reason, d) leaves for the id exactly one entry, built by
\* this call: blockedUntil is null exactly when the reason is kicked, whatever
\* d; for connection_failures it is blockedAt + d when a positive d is
\* passed and blockedAt + the configured default when d is omitted or 0;
\* the entries of the other ids stay as they are
C31_BlockEntry ==
    [][\A m \in ApiMeshes, r \in Reasons, d \in Durations :
          ApiBlock(m, r, d) =>
              /\ m \in DOMAIN blockedMeshes'
              /\ blockedMeshes'[m].meshId = m
              /\ blockedMeshes'[m].reason = r
              /\ blockedMeshes'[m].blockedAt = now
              /\ (blockedMeshes'[m].blockedUntil = Null) <=> (r = "kicked")
              /\ r = "connection_failures" =>
                    blockedMeshes'[m].blockedUntil =
                        now + (IF d = NoDuration \/ d = 0 THEN blocklistDuration ELSE d)
              /\ DOMAIN blockedMeshes' = DOMAIN blockedMeshes \cup {m}
              /\ \A n \in DOMAIN blockedMeshes \ {m} :
                    blockedMeshes'[n] = blockedMeshes[n]]_vars
\* a kicked entry written later over a saved temporary entry of the same
\* mesh: it is permanent and the only entry of the mesh
C31_Witness ==
    \E m \in ApiMeshes :
        /\ m \in DOMAIN blockedMeshes
        /\ blockedMeshes[m].reason = "kicked"
        /\ blockedMeshes[m].blockedUntil = Null
        /\ blockedMeshes[m].blockedAt > 0
        /\ \E x \in file.data : x.meshId = m /\ x.reason = "connection_failures"
\* C31 as stated: a connection_failures block expires at blockedAt + d for
\* every passed d, and at blockedAt + the default only when d is omitted
C31_PassedDurationKept ==
    [][\A m \in ApiMeshes, d \in Durations :
          ApiBlock(m, "connection_failures", d) =>
              blockedMeshes'[m].blockedUntil =
                  now + (IF d = NoDuration THEN blocklistDuration ELSE d)]_vars

\* C32: cleanupExpiredBlocks removes exactly the entries whose blockedUntil
\* is not null and earlier than now and starts a save only when it removed
\* one; every tick of the discovery interval fetches and syncs, and sweeps
\* the blocklist when its sync has ended
C32_SweepEveryTick ==
    [][LET Kept == {m \in DOMAIN blockedMeshes :
                      \/ blockedMeshes[m].blockedUntil = Null
                      \/ ~(now > blockedMeshes[m].blockedUntil)}
           Swept == /\ DOMAIN blockedMeshes' = Kept
                    /\ \A m \in Kept : blockedMeshes'[m] = blockedMeshes[m]
                    /\ (Kept = DOMAIN blockedMeshes) =>
                           (savePending' = savePending \/ ~dirWritable)
       IN /\ ApiCleanup => Swept
          /\ DiscoveryTick =>
                \E s \in Slots : runners[s] = Idle /\ runners'[s].pc = "fetch"
          /\ \A s \in Slots :
                (/\ runners[s].kind = "tick"
                 /\ runners[s] # Idle
                 /\ runners'[s] = Idle
                 /\ \E l \in Lists, ok \in BOOLEAN, r \in LookupResults :
                        Fetched(s, l, ok) \/ Waited(s) \/ Looked(s, r) \/ Graced(s)) =>
                    /\ \A m \in DOMAIN blockedMeshes' :
                          \/ blockedMeshes'[m].blockedUntil = Null
                          \/ ~(now > blockedMeshes'[m].blockedUntil)
                    /\ \A m \in Kept \cap DOMAIN blockedMeshes' :
                          blockedMeshes'[m].blockedUntil = blockedMeshes[m].blockedUntil]_vars

\* C33: a request is resolved only with the response to itself, never with
\* the response to another request, and once no request is pending the
\* correlation table holds no waiter and no timeout is armed, whatever ids
\* the requests outstanding at the same time carry
C33_OwnResponseOnly ==
    /\ \A c \in DOMAIN calls : calls[c].by \in {0, c}
    /\ (\A c \in DOMAIN calls : calls[c].state # "pending") =>
           /\ \A i \in 1..NumIds : responseChannels[i] = 0
           /\ \A c \in DOMAIN calls : ~calls[c].timer

C35_DisconnectCompletes ==
    [][ClientStep(disconnect) =>
          IF isTerminated
          THEN UNCHANGED <<otherVars, sessionVars>>
          ELSE /\ websocket' = "null"
               /\ websocket \in {"connecting", "open"} => dropped' = "closing"
               /\ \A c \in DOMAIN calls' : calls'[c].state # "pending" /\ ~calls'[c].timer
               /\ \A i \in 1..NumIds : responseChannels'[i] = 0
               /\ ~pingTimer' /\ intervals' = 0 /\ pingDelays' = 0]_vars

\* C36: the 'open' handler sends no ping and creates no interval, no ping
\* is sent while the delay armed by the latest open has not run out, a tick
\* of the interval on a usable session sends one clientPing request, a
\* request timeout and a ping whose send fails leave the session flags, the
\* socket and the keepalive timers as they are, and an interval is cleared
\* only by disconnect() or at a tick that finds the session closed
C36_Keepalive ==
    [][/\ wrote' = "ping" => pingDelays = 0
       /\ (\E id \in 1..NumIds, ok \in BOOLEAN : ClientStep(OnOpen(id, ok))) =>
             wrote' # "ping" /\ intervals' = intervals
       /\ \A id \in 1..NumIds :
             (ClientStep(PingTick(id, TRUE)) /\ Usable) =>
                 /\ wrote' = "ping"
                 /\ Len(calls') = Len(calls) + 1
       /\ (\/ \E c \in 1..MaxCalls : ClientStep(RequestTimeout(c))
           \/ \E id \in 1..NumIds : ClientStep(PingTick(id, FALSE)) /\ Usable) =>
             UNCHANGED <<isConnected, isTerminated, websocket, pingDelays, intervals, pingTimer>>
       /\ intervals' < intervals =>
             \/ ClientStep(disconnect)
             \/ ~isConnected \/ isTerminated]_vars

\* C37: at any time wasClosedImmediately() returns true exactly when a
\* close has been recorded since the last open and that close came less
\* than the 5 seconds after that open
C37_ClosedImmediately ==
    wasClosedImmediately <=>
        /\ lastCloseCode # Null /\ connectionStartTime # 0
        /\ closedAt - connectionStartTime < immediateWindow

C39_NoTimersWhenStopped ==
    (/\ ~isRunning
     /\ \A s \in Slots : runners[s].kind # "start"
     /\ stopWaits = {}) =>
        /\ timers = 0 /\ ~discoveryInterval
        /\ ~monitoring

\* C40: once the directory, the blocklist and the workers are quiet, the
\* discovery ticks bring the registry to hold exactly the listed meshes that
\* are not blocked, and it stays so
C40_RegistryConverges ==
    <>[](Range(Keys(processes)) =
             {m \in directory : ~isBlocked(blockedMeshes, m, now)})

====
